---- MODULE Spec2Model ----
(***************************************************************************)
(* Document cataloguer (document_cataloger.py): the incremental            *)
(* synchronisation of the catalog with the knowledge base, the metadata    *)
(* resolver with its oracle retry loop and fallback, and the persistence   *)
(* of the catalog as a CSV table.                                          *)
(*                                                                         *)
(* A Python str is a sequence of one-character strings, so that slicing,   *)
(* searching, case mapping and the regular expressions of the code are     *)
(* computed, not assumed.                                                  *)
(***************************************************************************)
EXTENDS Integers, Sequences, FiniteSets, TLC

-----------------------------------------------------------------------------
(* Python str primitives used by the code.  (SubSeq(f, 1, n) is the       *)
(* function f of domain 1..n, written so that it is computed once.)        *)

LowerLetters == <<"a","b","c","d","e","f","g","h","i","j","k","l","m","n","o","p","q","r","s","t","u","v","w","x","y","z">>

UpperLetters == <<"A","B","C","D","E","F","G","H","I","J","K","L","M","N","O","P","Q","R","S","T","U","V","W","X","Y","Z">>

Digits == {"0", "1", "2", "3", "4", "5", "6", "7", "8", "9"}

IsDigit(c) == c \in Digits

IsAlpha(c) == \E i \in 1..26 : c = LowerLetters[i] \/ c = UpperLetters[i]

IsAlnum(c) == IsAlpha(c) \/ IsDigit(c)

\* \w of the re module
IsWord(c) == IsAlnum(c) \/ c = "_"

IsSpace(c) == c \in {" ", "\t", "\n"}

LowerChar(c) ==
    IF \E i \in 1..26 : c = UpperLetters[i]
    THEN LowerLetters[CHOOSE i \in 1..26 : c = UpperLetters[i]]
    ELSE c

UpperChar(c) ==
    IF \E i \in 1..26 : c = LowerLetters[i]
    THEN UpperLetters[CHOOSE i \in 1..26 : c = LowerLetters[i]]
    ELSE c

\* s.lower()
StrLower(s) == SubSeq([i \in 1..Len(s) |-> LowerChar(s[i])], 1, Len(s))

\* s.upper()
StrUpper(s) == SubSeq([i \in 1..Len(s) |-> UpperChar(s[i])], 1, Len(s))

\* s.title(): a letter is upper-cased when the character before it is not a
\* letter, lower-cased otherwise
StrTitle(s) ==
    SubSeq([i \in 1..Len(s) |->
               IF i = 1 \/ ~IsAlpha(s[i - 1]) THEN UpperChar(s[i]) ELSE LowerChar(s[i])],
           1, Len(s))

\* s[:n]
Prefix(s, n) == SubSeq(s, 1, IF Len(s) < n THEN Len(s) ELSE n)

\* sub in s
Contains(s, sub) ==
    \E i \in 0..(Len(s) - Len(sub)) : SubSeq(s, i + 1, i + Len(sub)) = sub

\* s.replace(a, b) for one-character a and b
ReplaceChar(s, a, b) ==
    SubSeq([i \in 1..Len(s) |-> IF s[i] = a THEN b ELSE s[i]], 1, Len(s))

\* s.strip()
StrStrip(s) ==
    IF \A i \in 1..Len(s) : IsSpace(s[i]) THEN <<>>
    ELSE LET first == CHOOSE i \in 1..Len(s) :
                          ~IsSpace(s[i]) /\ \A j \in 1..(i - 1) : IsSpace(s[j])
             last  == CHOOSE i \in 1..Len(s) :
                          ~IsSpace(s[i]) /\ \A j \in (i + 1)..Len(s) : IsSpace(s[j])
         IN SubSeq(s, first, last)

\* re.sub(r'[^A-Za-z0-9]', '', s)
RECURSIVE KeepAlnum(_)
KeepAlnum(s) ==
    IF s = <<>> THEN <<>>
    ELSE (IF IsAlnum(Head(s)) THEN <<Head(s)>> ELSE <<>>) \o KeepAlnum(Tail(s))

\* whether r'\d{4}' matches s at position i
FourDigitsAt(s, i) ==
    /\ i >= 1
    /\ i + 3 <= Len(s)
    /\ \A k \in i..(i + 3) : IsDigit(s[k])

\* whether r'\b\d{4}\b' matches s at position i: four digits with no word
\* character right before and none right after
YearTokenAt(s, i) ==
    /\ FourDigitsAt(s, i)
    /\ (i = 1 \/ ~IsWord(s[i - 1]))
    /\ (i + 3 = Len(s) \/ ~IsWord(s[i + 4]))

\* re.sub(r'\b\d{4}\b', '', s), scanning s from position i
RECURSIVE RemoveYearTokensFrom(_, _)
RemoveYearTokensFrom(s, i) ==
    IF i > Len(s) THEN <<>>
    ELSE IF YearTokenAt(s, i) THEN RemoveYearTokensFrom(s, i + 4)
    ELSE <<s[i]>> \o RemoveYearTokensFrom(s, i + 1)

\* re.search(r'\b(19|20)\d{2}\b', s): the positions where it matches
PlausibleYearAt(s, i) ==
    /\ YearTokenAt(s, i)
    /\ SubSeq(s, i, i + 1) \in {<<"1","9">>, <<"2","0">>}

\* re.findall(r'\d{4}', s)[0], or <<>> when there is no match
FirstFourDigits(s) ==
    IF \E i \in 1..Len(s) : FourDigitsAt(s, i)
    THEN LET i == CHOOSE k \in 1..Len(s) :
                      FourDigitsAt(s, k) /\ \A j \in 1..(k - 1) : ~FourDigitsAt(s, j)
         IN SubSeq(s, i, i + 3)
    ELSE <<>>

\* "/".join(parts)
RECURSIVE JoinPath(_)
JoinPath(parts) ==
    IF parts = <<>> THEN <<>>
    ELSE IF Len(parts) = 1 THEN parts[1]
    ELSE parts[1] \o <<"/">> \o JoinPath(Tail(parts))

\* d.get(key, default) for a dict written as a sequence of <<key, value>>
DictGet(d, key, default) ==
    IF \E i \in 1..Len(d) : d[i][1] = key
    THEN d[CHOOSE i \in 1..Len(d) : d[i][1] = key][2]
    ELSE default

-----------------------------------------------------------------------------
(* Paths.  A document is named by its path relative to the knowledge base  *)
(* root: [dir |-> directory segments, stem |-> name without suffix,        *)
(* ext |-> suffix with its dot].                                           *)

\* self.kb_path, as the parts of an absolute path
kb_path == << <<"/">>, <<"k","b">> >>

\* file_path.name
FileName(p) == p.stem \o p.ext

\* file_path.parts of the absolute path  kb_path / relative path
PathParts(p) == kb_path \o p.dir \o <<FileName(p)>>

\* str(file_path) of the absolute path
PathStr(p) == <<"/">> \o JoinPath(Tail(PathParts(p)))

\* str(file_path.relative_to(self.kb_path))
RelativePath(p) == JoinPath(p.dir \o <<FileName(p)>>)

\* the glob patterns alone, hidden files included
EligibleWithHidden(p) == p.ext \in {<<".","p","d","f">>, <<".","d","o","c","x">>}

\* the glob patterns **/*.pdf and **/*.docx, minus the names starting with a dot
Eligible(p) ==
    /\ p.ext \in {<<".","p","d","f">>, <<".","d","o","c","x">>}
    /\ Head(FileName(p)) # "."

-----------------------------------------------------------------------------
(* Fallback metadata resolver *)

RequiredFields ==
    <<"title", "short_title", "publisher", "year", "language",
      "country_scope", "summary", "indicators_covered", "evidence_level">>

FallbackYear(filename) ==
    IF \E i \in 1..Len(filename) : PlausibleYearAt(filename, i)
    THEN LET i == CHOOSE k \in 1..Len(filename) :
                      /\ PlausibleYearAt(filename, k)
                      /\ \A j \in 1..(k - 1) : ~PlausibleYearAt(filename, j)
         IN SubSeq(filename, i, i + 3)
    ELSE <<"U","n","k","n","o","w","n">>

FallbackLanguage(filename) ==
    LET low == StrLower(filename)
    IN IF \E lang \in {<<"f","r">>, <<"f","r","e","n","c","h">>, <<"f","r","a","n","ç","a","i","s">>} : Contains(low, lang)
       THEN <<"F","R">>
       ELSE IF \E lang \in {<<"e","s">>, <<"s","p","a","n","i","s","h">>, <<"e","s","p","a","ñ","o","l">>} : Contains(low, lang)
       THEN <<"E","S">>
       ELSE IF \E lang \in {<<"a","r">>, <<"a","r","a","b","i","c">>} : Contains(low, lang)
       THEN <<"A","R">>
       ELSE <<"E","N">>

publishers ==
    << <<<<"s","p","h","e","r","e">>, <<"S","p","h","e","r","e"," ","P","r","o","j","e","c","t">>>>,
       <<<<"w","h","o">>, <<"W","H","O">>>>,
       <<<<"u","n","i","c","e","f">>, <<"U","N","I","C","E","F">>>>,
       <<<<"u","n","h","c","r">>, <<"U","N","H","C","R">>>>,
       <<<<"i","a","s","c">>, <<"I","A","S","C">>>>,
       <<<<"c","h","s">>, <<"C","H","S"," ","A","l","l","i","a","n","c","e">>>>,
       <<<<"i","m","c">>, <<"I","M","C">>>> >>

FallbackPublisher(filename, path_str) ==
    LET hit(i) == \/ Contains(StrLower(filename), publishers[i][1])
                  \/ Contains(path_str, publishers[i][1])
    IN IF \E i \in 1..Len(publishers) : hit(i)
       THEN publishers[CHOOSE i \in 1..Len(publishers) :
                           hit(i) /\ \A j \in 1..(i - 1) : ~hit(j)][2]
       ELSE <<"U","n","k","n","o","w","n">>

FallbackTitle(filename) ==
    StrTitle(StrStrip(RemoveYearTokensFrom(
        ReplaceChar(ReplaceChar(filename, "_", " "), "-", " "), 1)))

\* a short title cut at 50 characters, the dots after them
FallbackShortTitleCutAt50(title) ==
    IF Len(title) <= 50 THEN title ELSE Prefix(title, 50) \o <<".",".",".">>

\* title[:50] if len(title) <= 50 else title[:47] + "..."
FallbackShortTitle(title) ==
    IF Len(title) <= 50 THEN Prefix(title, 50) ELSE Prefix(title, 47) \o <<".",".",".">>

get_fallback_metadata(file_path) ==
    LET filename == file_path.stem
        path_str == StrLower(PathStr(file_path))
        title    == FallbackTitle(filename)
    IN [title              |-> title,
        short_title        |-> FallbackShortTitle(title),
        publisher          |-> FallbackPublisher(filename, path_str),
        year               |-> FallbackYear(filename),
        language           |-> FallbackLanguage(filename),
        country_scope      |-> <<"G","l","o","b","a","l">>,
        summary            |-> <<"D","o","c","u","m","e","n","t"," ","r","e","q","u","i","r","e","s"," ","m","a","n","u","a","l"," ","r","e","v","i","e","w"," ","f","o","r"," ","d","e","t","a","i","l","e","d"," ","c","a","t","a","l","o","g","i","n","g">>,
        indicators_covered |-> <<"T","o"," ","b","e"," ","d","e","t","e","r","m","i","n","e","d"," ","t","h","r","o","u","g","h"," ","m","a","n","u","a","l"," ","r","e","v","i","e","w">>,
        evidence_level     |-> <<"u","n","k","n","o","w","n">>]

-----------------------------------------------------------------------------
(* Classifier *)

sector_mapping ==
    << <<<<"0","1","_","C","r","o","s","s","_","C","u","t","t","i","n","g","_","S","t","a","n","d","a","r","d","s">>, <<"C","r","o","s","s","-","C","u","t","t","i","n","g">>>>,
       <<<<"0","2","_","S","e","c","t","o","r","_","S","t","a","n","d","a","r","d","s","_","P","o","l","i","c","i","e","s">>, <<"M","i","x","e","d">>>>,
       <<<<"0","3","_","C","r","o","s","s","_","C","u","t","t","i","n","g","_","A","s","s","e","s","s","m","e","n","t","_","G","u","i","d","e","l","i","n","e","s","_","T","o","o","l","s">>, <<"C","r","o","s","s","-","C","u","t","t","i","n","g">>>>,
       <<<<"0","4","_","S","e","c","t","o","r","_","A","s","s","e","s","s","m","e","n","t","_","G","u","i","d","e","l","i","n","e","s","_","T","o","o","l","s">>, <<"M","i","x","e","d">>>>,
       <<<<"0","5","_","G","o","l","d","_","S","t","a","n","d","a","r","d","_","E","x","a","m","p","l","e","s">>, <<"M","i","x","e","d">>>>,
       <<<<"H","e","a","l","t","h">>, <<"H","e","a","l","t","h">>>>,
       <<<<"M","H","P","S","S">>, <<"M","H","P","S","S">>>>,
       <<<<"N","u","t","r","i","t","i","o","n">>, <<"N","u","t","r","i","t","i","o","n">>>>,
       <<<<"W","A","S","H">>, <<"W","A","S","H">>>>,
       <<<<"G","B","V">>, <<"G","B","V">>>>,
       <<<<"C","h","i","l","d","_","P","r","o","t","e","c","t","i","o","n">>, <<"C","h","i","l","d"," ","P","r","o","t","e","c","t","i","o","n">>>>,
       <<<<"F","S","L">>, <<"F","S","L">>>> >>

InSectorMapping(part) == \E i \in 1..Len(sector_mapping) : sector_mapping[i][1] = part

\* the sector a path segment's keywords infer, <<>> when it has none
KeywordSector(part) ==
    LET part_lower == StrLower(part)
    IN IF Contains(part_lower, <<"h","e","a","l","t","h">>) /\ ~Contains(part_lower, <<"m","h","p","s","s">>)
       THEN <<"H","e","a","l","t","h">>
       ELSE IF Contains(part_lower, <<"m","h","p","s","s">>) \/ Contains(part_lower, <<"m","e","n","t","a","l">>)
       THEN <<"M","H","P","S","S">>
       ELSE IF Contains(part_lower, <<"n","u","t","r","i","t","i","o","n">>) THEN <<"N","u","t","r","i","t","i","o","n">>
       ELSE IF Contains(part_lower, <<"w","a","s","h">>) THEN <<"W","A","S","H">>
       ELSE IF Contains(part_lower, <<"g","b","v">>) \/ Contains(part_lower, <<"g","e","n","d","e","r">>)
       THEN <<"G","B","V">>
       ELSE IF Contains(part_lower, <<"p","r","o","t","e","c","t","i","o","n">>) THEN <<"C","h","i","l","d"," ","P","r","o","t","e","c","t","i","o","n">>
       ELSE IF Contains(part_lower, <<"f","s","l">>) \/ Contains(part_lower, <<"f","o","o","d">>)
       THEN <<"F","S","L">>
       ELSE <<>>

\* a classifier that takes the first segment that matches, exactly or by a
\* keyword
determine_sector_by_segment(file_path) ==
    LET path_parts == PathParts(file_path)
        n == Len(path_parts)
        matches(part) == InSectorMapping(part) \/ KeywordSector(part) # <<>>
    IN IF \E i \in 1..n : matches(path_parts[i])
       THEN LET i == CHOOSE k \in 1..n :
                         /\ matches(path_parts[k])
                         /\ \A j \in 1..(k - 1) : ~matches(path_parts[j])
            IN IF InSectorMapping(path_parts[i])
               THEN DictGet(sector_mapping, path_parts[i], <<>>)
               ELSE KeywordSector(path_parts[i])
       ELSE <<"C","r","o","s","s","-","C","u","t","t","i","n","g">>

determine_sector(file_path) ==
    LET path_parts == PathParts(file_path)
        n == Len(path_parts)
    IN IF \E i \in 1..n : InSectorMapping(path_parts[i])
       THEN LET i == CHOOSE k \in 1..n :
                         /\ InSectorMapping(path_parts[k])
                         /\ \A j \in 1..(k - 1) : ~InSectorMapping(path_parts[j])
            IN DictGet(sector_mapping, path_parts[i], <<>>)
       ELSE IF \E i \in 1..n : KeywordSector(path_parts[i]) # <<>>
       THEN LET i == CHOOSE k \in 1..n :
                         /\ KeywordSector(path_parts[k]) # <<>>
                         /\ \A j \in 1..(k - 1) : KeywordSector(path_parts[j]) = <<>>
            IN KeywordSector(path_parts[i])
       ELSE <<"C","r","o","s","s","-","C","u","t","t","i","n","g">>

\* a classifier that looks for the keywords in the path and the title as
\* they are written
determine_doc_type_as_written(file_path, title) ==
    LET path_str    == PathStr(file_path)
        title_lower == title
    IN IF Contains(path_str, <<"s","t","a","n","d","a","r","d">>) \/ Contains(title_lower, <<"s","t","a","n","d","a","r","d">>)
       THEN <<"s","t","a","n","d","a","r","d">>
       ELSE IF Contains(path_str, <<"a","s","s","e","s","s","m","e","n","t">>) \/ Contains(title_lower, <<"a","s","s","e","s","s","m","e","n","t">>)
       THEN <<"a","s","s","e","s","s","m","e","n","t","_","t","o","o","l">>
       ELSE IF Contains(path_str, <<"g","u","i","d","e","l","i","n","e">>) \/ Contains(title_lower, <<"g","u","i","d","e">>)
       THEN <<"g","u","i","d","e","l","i","n","e">>
       ELSE IF Contains(path_str, <<"t","o","o","l">>) \/ Contains(title_lower, <<"t","o","o","l">>)
       THEN <<"t","o","o","l">>
       ELSE IF Contains(path_str, <<"p","o","l","i","c","y">>) \/ Contains(title_lower, <<"p","o","l","i","c","y">>)
       THEN <<"p","o","l","i","c","y">>
       ELSE IF Contains(path_str, <<"e","x","a","m","p","l","e">>) \/ Contains(title_lower, <<"e","x","a","m","p","l","e">>)
       THEN <<"e","x","a","m","p","l","e">>
       ELSE <<"r","e","s","o","u","r","c","e">>

determine_doc_type(file_path, title) ==
    LET path_str    == StrLower(PathStr(file_path))
        title_lower == StrLower(title)
    IN IF Contains(path_str, <<"s","t","a","n","d","a","r","d">>) \/ Contains(title_lower, <<"s","t","a","n","d","a","r","d">>)
       THEN <<"s","t","a","n","d","a","r","d">>
       ELSE IF Contains(path_str, <<"a","s","s","e","s","s","m","e","n","t">>) \/ Contains(title_lower, <<"a","s","s","e","s","s","m","e","n","t">>)
       THEN <<"a","s","s","e","s","s","m","e","n","t","_","t","o","o","l">>
       ELSE IF Contains(path_str, <<"g","u","i","d","e","l","i","n","e">>) \/ Contains(title_lower, <<"g","u","i","d","e">>)
       THEN <<"g","u","i","d","e","l","i","n","e">>
       ELSE IF Contains(path_str, <<"t","o","o","l">>) \/ Contains(title_lower, <<"t","o","o","l">>)
       THEN <<"t","o","o","l">>
       ELSE IF Contains(path_str, <<"p","o","l","i","c","y">>) \/ Contains(title_lower, <<"p","o","l","i","c","y">>)
       THEN <<"p","o","l","i","c","y">>
       ELSE IF Contains(path_str, <<"e","x","a","m","p","l","e">>) \/ Contains(title_lower, <<"e","x","a","m","p","l","e">>)
       THEN <<"e","x","a","m","p","l","e">>
       ELSE <<"r","e","s","o","u","r","c","e">>

-----------------------------------------------------------------------------
(* Identifier generator *)

sector_abbrev ==
    << <<<<"H","e","a","l","t","h">>, <<"H","L","T","H">>>>, <<<<"M","H","P","S","S">>, <<"M","H","P","S","S">>>>, <<<<"N","u","t","r","i","t","i","o","n">>, <<"N","U","T">>>>,
       <<<<"W","A","S","H">>, <<"W","A","S","H">>>>, <<<<"G","B","V">>, <<"G","B","V">>>>, <<<<"C","h","i","l","d"," ","P","r","o","t","e","c","t","i","o","n">>, <<"C","P">>>>,
       <<<<"F","S","L">>, <<"F","S","L">>>>, <<<<"C","r","o","s","s","-","C","u","t","t","i","n","g">>, <<"C","C">>>>, <<<<"M","i","x","e","d">>, <<"M","X">>>> >>

type_abbrev ==
    << <<<<"s","t","a","n","d","a","r","d">>, <<"S","T","D">>>>, <<<<"a","s","s","e","s","s","m","e","n","t","_","t","o","o","l">>, <<"A","S","M","T">>>>,
       <<<<"g","u","i","d","e","l","i","n","e">>, <<"G","U","I","D">>>>, <<<<"t","o","o","l">>, <<"T","O","O","L">>>>, <<<<"p","o","l","i","c","y">>, <<"P","O","L">>>>,
       <<<<"e","x","a","m","p","l","e">>, <<"E","X">>>>, <<<<"r","e","s","o","u","r","c","e">>, <<"R","E","S">>>> >>

\* an identifier whose publisher is cut to 8 characters before it is
\* stripped
generate_doc_id_cut_first(sector, doc_type, publisher, title, year, version) ==
    LET pub_clean  == KeepAlnum(Prefix(StrUpper(publisher), 8))
        year_clean == FirstFourDigits(year)
    IN DictGet(sector_abbrev, sector, <<"G","E","N">>) \o <<"_">>
       \o DictGet(type_abbrev, doc_type, <<"D","O","C">>) \o <<"_">>
       \o (IF pub_clean = <<>> THEN <<"U","N","K">> ELSE pub_clean) \o <<"_">>
       \o (IF year_clean = <<>> THEN <<"U","N","K","N">> ELSE year_clean) \o <<"_">>
       \o version

generate_doc_id(sector, doc_type, publisher, title, year, version) ==
    LET pub_clean  == Prefix(KeepAlnum(StrUpper(publisher)), 8)
        year_clean == FirstFourDigits(year)
    IN DictGet(sector_abbrev, sector, <<"G","E","N">>) \o <<"_">>
       \o DictGet(type_abbrev, doc_type, <<"D","O","C">>) \o <<"_">>
       \o (IF pub_clean = <<>> THEN <<"U","N","K">> ELSE pub_clean) \o <<"_">>
       \o (IF year_clean = <<>> THEN <<"U","N","K","N">> ELSE year_clean) \o <<"_">>
       \o version

\* generate_new_filename gives doc_id + the lower-cased suffix: as a path in
\* the directory of original_path (rename_file's new_path)
generate_new_filename(doc_id, original_path) ==
    [dir |-> original_path.dir, stem |-> doc_id, ext |-> StrLower(original_path.ext)]

-----------------------------------------------------------------------------
(* Primary metadata resolver.                                              *)
(*                                                                         *)
(* A JSON value is [t |-> type, s |-> the str, n |-> the number, the       *)
(* truth value as 0/1, or the length of a list].  The oracle's response    *)
(* text is a sequence of segments: "prose" (text without braces), "ws"     *)
(* (white space), "open" and "close" (a lone brace), and "obj", the text   *)
(* of one well-formed JSON object, whose fields are in o.                  *)

JStr(s) == [t |-> "str", s |-> s, n |-> 0]

JNum(n) == [t |-> "num", s |-> <<>>, n |-> n]

JNull == [t |-> "null", s |-> <<>>, n |-> 0]

JList(len) == [t |-> "list", s |-> <<>>, n |-> len]

Seg(k) == [k |-> k, o |-> <<>>]

ObjSeg(o) == [k |-> "obj", o |-> o]

\* Python truth value of a parsed JSON value
Truthy(v) == IF v.t = "str" THEN v.s # <<>> ELSE v.n # 0

\* query_ollama returns this when every attempt failed
None == [none |-> TRUE, text |-> <<>>]

Text(segs) == [none |-> FALSE, text |-> segs]

\* text.strip() on a response text
RECURSIVE StripLeft(_)
StripLeft(segs) ==
    IF segs # <<>> /\ Head(segs).k = "ws" THEN StripLeft(Tail(segs)) ELSE segs

RECURSIVE StripRight(_)
StripRight(segs) ==
    IF segs # <<>> /\ segs[Len(segs)].k = "ws"
    THEN StripRight(SubSeq(segs, 1, Len(segs) - 1))
    ELSE segs

StripText(segs) == StripRight(StripLeft(segs))

max_retries == 3

\* the loop body with its bound off by one (C6 tells it from OllamaAttempt)
OllamaAttemptOffByOne(st, outcome) ==
    IF outcome.kind = "ok"
    THEN [attempt |-> st.attempt + 1, returned |-> TRUE,
          response |-> Text(StripText(outcome.text))]
    ELSE IF st.attempt + 1 <= max_retries
    THEN [attempt |-> st.attempt + 1, returned |-> FALSE, response |-> None]
    ELSE [attempt |-> st.attempt + 1, returned |-> TRUE, response |-> None]

\* One iteration of the loop of query_ollama.  st is [attempt |-> the
\* iterations done, returned |-> whether the function has returned,
\* response |-> what it returned]; outcome is what requests.post did:
\* "ok" (status 200, with the response text), "status" (any other status) or
\* "exception" (a RequestException).
OllamaAttempt(st, outcome) ==
    IF outcome.kind = "ok"
    THEN [attempt |-> st.attempt + 1, returned |-> TRUE,
          response |-> Text(StripText(outcome.text))]
    ELSE IF st.attempt + 1 < max_retries
    THEN [attempt |-> st.attempt + 1, returned |-> FALSE, response |-> None]
    ELSE [attempt |-> st.attempt + 1, returned |-> TRUE, response |-> None]

OllamaStart == [attempt |-> 0, returned |-> FALSE, response |-> None]

\* query_ollama against an oracle that answers outcomes[1], outcomes[2], ...
RECURSIVE OllamaLoop(_, _)
OllamaLoop(st, outcomes) ==
    IF st.returned \/ outcomes = <<>> THEN st
    ELSE OllamaLoop(OllamaAttempt(st, Head(outcomes)), Tail(outcomes))

query_ollama(outcomes) == OllamaLoop(OllamaStart, outcomes)

\* response.find('{') and response.rfind('}'), as segment positions; 0 when
\* there is none
FindOpen(segs) ==
    IF \E i \in 1..Len(segs) : segs[i].k \in {"open", "obj"}
    THEN CHOOSE i \in 1..Len(segs) :
             /\ segs[i].k \in {"open", "obj"}
             /\ \A j \in 1..(i - 1) : segs[j].k \notin {"open", "obj"}
    ELSE 0

RFindClose(segs) ==
    IF \E i \in 1..Len(segs) : segs[i].k \in {"close", "obj"}
    THEN CHOOSE i \in 1..Len(segs) :
             /\ segs[i].k \in {"close", "obj"}
             /\ \A j \in (i + 1)..Len(segs) : segs[j].k \notin {"close", "obj"}
    ELSE 0

\* json_start != -1 and json_end > json_start: there is a '{', and the last
\* '}' comes after it
HasJsonSpan(segs) ==
    /\ FindOpen(segs) # 0
    /\ RFindClose(segs) # 0
    /\ \/ RFindClose(segs) > FindOpen(segs)
       \/ RFindClose(segs) = FindOpen(segs) /\ segs[FindOpen(segs)].k = "obj"

JsonStr(segs) == SubSeq(segs, FindOpen(segs), RFindClose(segs))

\* a parser that takes any text for an object
JsonLoadsAny(json_str) == TRUE

\* json.loads(json_str) succeeds on the text of one object, and on a pair of
\* braces with nothing but white space between them (the empty object)
JsonLoadsOk(json_str) ==
    \/ Len(json_str) = 1 /\ json_str[1].k = "obj"
    \/ /\ Len(json_str) >= 2
       /\ json_str[1].k = "open"
       /\ json_str[Len(json_str)].k = "close"
       /\ \A i \in 2..(Len(json_str) - 1) : json_str[i].k = "ws"

JsonLoads(json_str) == IF Len(json_str) = 1 THEN json_str[1].o ELSE <<>>

defaults ==
    << <<"evidence_level", <<"n","o","r","m","a","t","i","v","e">>>>,
       <<"country_scope", <<"G","l","o","b","a","l">>>>,
       <<"summary", <<"H","u","m","a","n","i","t","a","r","i","a","n"," ","s","t","a","n","d","a","r","d"," ","o","r"," ","f","r","a","m","e","w","o","r","k"," ","d","o","c","u","m","e","n","t">>>>,
       <<"indicators_covered", <<"Q","u","a","l","i","t","y"," ","a","n","d"," ","a","c","c","o","u","n","t","a","b","i","l","i","t","y"," ","s","t","a","n","d","a","r","d","s">>>> >>

\* field not in metadata or not metadata[field]
MissingOrFalsy(metadata, field) ==
    field \notin DOMAIN metadata \/ ~Truthy(metadata[field])

\* metadata[field].strip() raises AttributeError on a value that is no str
StripRaises(metadata, field) ==
    ~MissingOrFalsy(metadata, field) /\ metadata[field].t # "str"

NeedsDefault(metadata, field) ==
    \/ MissingOrFalsy(metadata, field)
    \/ metadata[field].t = "str" /\ StrStrip(metadata[field].s) = <<>>

\* the validation loop and the clean-up after it, when nothing raises
ValidatedMetadata(metadata) ==
    LET filled == [i \in 1..Len(RequiredFields) |->
                      IF NeedsDefault(metadata, RequiredFields[i])
                      THEN DictGet(defaults, RequiredFields[i], <<"U","n","k","n","o","w","n">>)
                      ELSE metadata[RequiredFields[i]].s]
    IN [title              |-> filled[1],
        short_title        |-> IF Len(filled[2]) > 50
                               THEN Prefix(filled[2], 47) \o <<".",".",".">>
                               ELSE filled[2],
        publisher          |-> filled[3],
        year               |-> filled[4],
        language           |-> filled[5],
        country_scope      |-> filled[6],
        summary            |-> filled[7],
        indicators_covered |-> filled[8],
        evidence_level     |-> filled[9]]

\* stands for "no value" where an exception leaves the function
NoMetadata ==
    [title |-> <<>>, short_title |-> <<>>, publisher |-> <<>>, year |-> <<>>,
     language |-> <<>>, country_scope |-> <<>>, summary |-> <<>>,
     indicators_covered |-> <<>>, evidence_level |-> <<>>]

\* analyze_document_with_llm after its call of query_ollama: [outcome |->
\* "llm" (the validated metadata of the oracle), "fallback" or "raise" (an
\* exception leaves the function), metadata |-> what it returns]
AnalyzeResponse(response, file_path) ==
    IF response.none \/ response.text = <<>>
    THEN [outcome |-> "fallback", metadata |-> get_fallback_metadata(file_path)]
    ELSE LET segs == StripText(response.text)
         IN IF ~HasJsonSpan(segs) \/ ~JsonLoadsOk(JsonStr(segs))
            THEN [outcome |-> "fallback", metadata |-> get_fallback_metadata(file_path)]
            ELSE LET metadata == JsonLoads(JsonStr(segs))
                 IN IF \E i \in 1..Len(RequiredFields) :
                           StripRaises(metadata, RequiredFields[i])
                    THEN [outcome |-> "raise", metadata |-> NoMetadata]
                    ELSE [outcome |-> "llm", metadata |-> ValidatedMetadata(metadata)]

analyze_document_with_llm(outcomes, file_path) ==
    AnalyzeResponse(query_ollama(outcomes).response, file_path)

-----------------------------------------------------------------------------
(* Documents on disk.  A file is [bytes |-> its content, readable |->       *)
(* whether open() succeeds]; content 0 is a container with no extractable  *)
(* text.                                                                   *)

DigitChar(n) == <<"0", "1", "2", "3", "4", "5", "6", "7", "8", "9">>[n + 1]

\* sha256_hash.hexdigest(): a fingerprint that differs when the bytes differ
HexDigest(bytes) == <<"s","h","a","2","5","6","-">> \o <<DigitChar(bytes)>>

get_file_checksum(file) == IF file.readable THEN HexDigest(file.bytes) ELSE <<>>

\* extract_text_from_pdf and extract_text_from_docx: "" on any exception
extract_text(file) ==
    IF file.readable /\ file.bytes # 0 THEN <<"t","e","x","t"," ">> \o <<DigitChar(file.bytes)>>
    ELSE <<>>

\* datetime.now().strftime('%m/%d/%y') and the same one year later, for the
\* day-th day of January 2026
DateStr(day, years) == <<"0","1","/","0">> \o <<DigitChar(day)>> \o <<"/","2">> \o <<DigitChar(6 + years)>>

\* the catalog as a dict: a sequence of entries with distinct file_path
InCatalog(catalog, relative_path) ==
    \E i \in 1..Len(catalog) : catalog[i].file_path = relative_path

CatalogGet(catalog, relative_path) ==
    catalog[CHOOSE i \in 1..Len(catalog) : catalog[i].file_path = relative_path]

CatalogEntry(file_path, current_checksum, llm_metadata, now) ==
    LET sector   == determine_sector(file_path)
        doc_type == determine_doc_type(file_path, llm_metadata.title)
        doc_id   == generate_doc_id(sector, doc_type, llm_metadata.publisher,
                                    llm_metadata.title, llm_metadata.year, <<"v","1">>)
    IN [doc_id             |-> doc_id,
        title              |-> llm_metadata.title,
        short_title        |-> llm_metadata.short_title,
        sector             |-> sector,
        doc_type           |-> doc_type,
        doc_source         |-> IF Contains(PathStr(file_path), <<"E","x","t","e","r","n","a","l">>)
                               THEN <<"e","x","t","e","r","n","a","l">> ELSE <<"i","n","t","e","r","n","a","l">>,
        publisher          |-> llm_metadata.publisher,
        year               |-> llm_metadata.year,
        version            |-> <<"v","1">>,
        language           |-> llm_metadata.language,
        country_scope      |-> llm_metadata.country_scope,
        license            |-> <<>>,
        license_url        |-> <<>>,
        redistributable    |-> <<>>,
        url                |-> <<>>,
        file_name          |-> FileName(file_path),
        file_path          |-> RelativePath(file_path),
        checksum_sha256    |-> current_checksum,
        evidence_level     |-> llm_metadata.evidence_level,
        last_reviewed      |-> DateStr(now, 0),
        next_review_due    |-> DateStr(now, 1),
        supersedes_doc_id  |-> <<>>,
        notes              |-> llm_metadata.summary,
        indicators_covered |-> llm_metadata.indicators_covered,
        page_anchors       |-> <<>>,
        embedding_status   |-> <<"p","e","n","d","i","n","g">>,
        embedding_model    |-> <<>>,
        chunk_count        |-> <<>>,
        vector_index_id    |-> <<>>]

\* an "unchanged" branch that does not look at force_reprocess
SkipsUnchangedForced(file_path, file, force_reprocess, existing_catalog) ==
    /\ InCatalog(existing_catalog, RelativePath(file_path))
    /\ CatalogGet(existing_catalog, RelativePath(file_path)).checksum_sha256
           = get_file_checksum(file)

\* whether process_document takes its "unchanged" branch
SkipsUnchanged(file_path, file, force_reprocess, existing_catalog) ==
    /\ ~force_reprocess
    /\ InCatalog(existing_catalog, RelativePath(file_path))
    /\ CatalogGet(existing_catalog, RelativePath(file_path)).checksum_sha256
           = get_file_checksum(file)

NoEntry == CatalogEntry([dir |-> <<>>, stem |-> <<"-">>, ext |-> <<>>], <<>>, NoMetadata, 0)

\* process_document: [kind |-> "skipped" (the existing entry is returned),
\* "none" (None is returned), "entry" (a new entry is returned) or "raise"
\* (an exception leaves the function), entry |-> the entry returned].
\* outcomes is what the oracle answers to the attempts of this document.
process_document(file_path, file, force_reprocess, existing_catalog, outcomes, now) ==
    IF SkipsUnchanged(file_path, file, force_reprocess, existing_catalog)
    THEN [kind |-> "skipped",
          entry |-> CatalogGet(existing_catalog, RelativePath(file_path))]
    ELSE IF StrLower(file_path.ext) \notin {<<".","p","d","f">>, <<".","d","o","c","x">>}
    THEN [kind |-> "none", entry |-> NoEntry]
    ELSE IF extract_text(file) = <<>>
    THEN [kind |-> "none", entry |-> NoEntry]
    ELSE LET llm == analyze_document_with_llm(outcomes, file_path)
         IN IF llm.outcome = "raise"
            THEN [kind |-> "raise", entry |-> NoEntry]
            ELSE [kind |-> "entry",
                  entry |-> CatalogEntry(file_path, get_file_checksum(file),
                                         llm.metadata, now)]

-----------------------------------------------------------------------------
(* The persisted catalog: a CSV file, read by pandas and written by        *)
(* csv.DictWriter.                                                         *)

fieldnames ==
    <<"doc_id", "title", "short_title", "sector", "doc_type", "doc_source",
      "publisher", "year", "version", "language", "country_scope",
      "license", "license_url", "redistributable", "url", "file_name",
      "file_path", "checksum_sha256", "evidence_level", "last_reviewed",
      "next_review_due", "supersedes_doc_id", "notes", "indicators_covered",
      "page_anchors", "embedding_status", "embedding_model", "chunk_count",
      "vector_index_id">>

\* the float nan pandas gives for a missing value; it is no str, and equals
\* no str
NaN == <<"NaN">>

\* the cell texts pd.read_csv takes for a missing value (its default
\* na_values that the model's cells can hold)
na_values == {<<>>, <<"n","a","n">>, <<"N","a","N">>, <<"N","/","A">>, <<"N","A">>, <<"n","u","l","l">>, <<"N","o","n","e">>}

\* a reader that keeps every cell as the text it is
ReadCellAsText(text) == text

\* what pd.read_csv makes of a cell
ReadCell(text) == IF text \in na_values THEN NaN ELSE text

\* what csv.DictWriter writes for a value: a str as it is, the float nan
\* as str(nan)
WriteCell(value) == IF value = NaN THEN <<"n","a","n">> ELSE value

ReadRow(row) == [f \in DOMAIN row |-> ReadCell(row[f])]

\* DictWriter writes the columns of fieldnames
WriteRow(entry) ==
    [f \in {fieldnames[i] : i \in 1..Len(fieldnames)} |-> WriteCell(entry[f])]

\* catalog_dict[row['file_path']] = row.to_dict()
DictPut(catalog, entry) ==
    IF InCatalog(catalog, entry.file_path)
    THEN [i \in 1..Len(catalog) |->
             IF catalog[i].file_path = entry.file_path THEN entry ELSE catalog[i]]
    ELSE Append(catalog, entry)

RECURSIVE DictOfRows(_, _)
DictOfRows(catalog, rows) ==
    IF rows = <<>> THEN catalog
    ELSE DictOfRows(DictPut(catalog, ReadRow(Head(rows))), Tail(rows))

\* load_existing_catalog: disk is [exists |-> whether the file is there,
\* rows |-> its rows below the header]
load_existing_catalog(disk) ==
    IF disk.exists THEN DictOfRows(<<>>, disk.rows) ELSE <<>>

\* the rows writer.writerows(catalog_entries) writes
RowsOf(catalog_entries) == [i \in 1..Len(catalog_entries) |-> WriteRow(catalog_entries[i])]

-----------------------------------------------------------------------------
(* The synchroniser: main() running catalog_all_documents and              *)
(* save_catalog, between changes of the knowledge base.                    *)

\* bounds of the model
MaxRuns == 2

MaxChanges == 2

\* the contents a document may have: 0 has no extractable text
FileBytes == {0, 1, 2}

VARIABLES
    fs,                 \* the knowledge base: path |-> file
    disk,               \* the catalog file: [exists, rows]
    today,              \* the day datetime.now() falls on: a run a day
    pc,                 \* where main() is
    incremental,        \* the mode of the run
    rename_files,       \* the --rename option of the run
    existing_catalog,   \* self.existing_catalog
    catalog_entries,    \* catalog_entries of catalog_all_documents and main
    files_to_process,   \* files_to_process, minus the files already looped over
    deleted_files,      \* deleted_files of scan_for_file_changes
    written,            \* the rows save_catalog has written so far
    \* what the run did, for the properties
    scanned,            \* the eligible files the run found on disk
    resolved,           \* the files the resolver was called for
    skipped,            \* the files returned as unchanged
    produced,           \* the entries the loop appended
    disk_at_start,      \* the catalog file when the run started
    quiet,              \* the run follows a complete incremental run with no change between
    modified,           \* the files whose bytes changed since the last run
    runs,               \* runs started
    changes,            \* changes made to the knowledge base
    printed,            \* what save_catalog and main have printed about the outcome
    failed,             \* files whose iteration ended in the except clause
    \* one document in the resolver (SpecResolver)
    r_file, r_loop, r_outcomes, r_result, r_pc,
    \* one call of process_document, step by step (SpecDocument)
    doc,
    \* one call of generate_doc_id (SpecDocId)
    gen,
    \* one document classified by process_document (SpecClassify)
    cls

syncVars ==
    <<fs, disk, today, pc, incremental, rename_files, existing_catalog,
      catalog_entries, files_to_process, deleted_files, written, scanned,
      resolved, skipped, produced, disk_at_start, quiet, modified, runs, changes,
      printed, failed>>

resolverVars == <<r_file, r_loop, r_outcomes, r_result, r_pc>>

pureVars == <<doc, gen, cls>>

vars == <<syncVars, resolverVars, pureVars>>

Path(dir, stem, ext) == [dir |-> dir, stem |-> stem, ext |-> ext]

\* the documents a user puts into the knowledge base
UserPaths ==
    {Path(<<<<"W","A","S","H">>>>, <<"w","h","o">>, <<".","p","d","f">>), Path(<<<<"W","A","S","H">>>>, <<"2","0","2","3">>, <<".","p","d","f">>)}

\* what the oracle's object holds when it answers well
GoodObject ==
    [title              |-> JStr(<<"W","h","o"," ","G","u","i","d","e">>),
     short_title        |-> JStr(<<"G","u","i","d","e">>),
     publisher          |-> JStr(<<"W","H","O">>),
     year               |-> JStr(<<"2","0","2","3">>),
     language           |-> JStr(<<"E","N">>),
     country_scope      |-> JStr(<<"G","l","o","b","a","l">>),
     summary            |-> JStr(<<"A"," ","g","u","i","d","e">>),
     indicators_covered |-> JStr(<<"W","a","t","e","r">>),
     evidence_level     |-> JStr(<<"n","o","r","m","a","t","i","v","e">>)]

Ok(text) == [kind |-> "ok", text |-> text]

HttpStatus == [kind |-> "status", text |-> <<>>]

RequestException == [kind |-> "exception", text |-> <<>>]

\* the oracle of the synchroniser answers the first attempt with an object
\* or with an object whose year is a number, or answers no attempt
SyncOutcomes ==
    { <<Ok(<<ObjSeg(GoodObject)>>)>>,
      <<Ok(<<ObjSeg([GoodObject EXCEPT !.year = JNum(2023)])>>)>>,
      <<HttpStatus, RequestException, HttpStatus>> }

NoDisk == [exists |-> FALSE, rows |-> <<>>]

\* the contents of the documents the first run finds
FirstBytes == {0, 1}

\* a document the first run finds: one with text, one without, or one
\* that cannot be opened
FirstDocuments ==
    [bytes : FirstBytes, readable : {TRUE}] \cup {[bytes |-> 1, readable |-> FALSE]}

\* the knowledge bases the first run may find
FirstFiles ==
    UNION {[paths -> FirstDocuments] : paths \in SUBSET UserPaths}

\* no run yet
RunIdle ==
    /\ today = 1
    /\ pc = "idle"
    /\ incremental = TRUE
    /\ rename_files = FALSE
    /\ existing_catalog = <<>>
    /\ catalog_entries = <<>>
    /\ files_to_process = {}
    /\ deleted_files = {}
    /\ written = 0
    /\ scanned = {}
    /\ resolved = {}
    /\ skipped = {}
    /\ produced = <<>>
    /\ disk_at_start = NoDisk
    /\ quiet = FALSE
    /\ modified = {}
    /\ runs = 0
    /\ changes = 0
    /\ printed = {}
    /\ failed = {}

\* no run is on, and there is no catalog file
SyncIdle == disk = NoDisk /\ RunIdle

SyncInit == fs \in FirstFiles /\ SyncIdle

runVars ==
    <<pc, incremental, rename_files, existing_catalog, catalog_entries,
      files_to_process, deleted_files, written, scanned, resolved, skipped,
      produced, disk_at_start, runs, printed, failed>>

\* fs without the file at p
Without(f, p) == [q \in DOMAIN f \ {p} |-> f[q]]

\* fs with file at p
With(f, p, file) == [q \in DOMAIN f \cup {p} |-> IF q = p THEN file ELSE f[q]]

(* The knowledge base and the catalog file change between runs: what    *)
(* they are before the first run is Init's choice.                      *)

Changing ==
    /\ pc = "idle"
    /\ runs > 0
    /\ changes < MaxChanges
    /\ changes' = changes + 1
    /\ quiet' = FALSE
    /\ UNCHANGED <<runVars, resolverVars, pureVars>>

AddFile(p, bytes) ==
    /\ Changing
    /\ p \notin DOMAIN fs
    /\ fs' = With(fs, p, [bytes |-> bytes, readable |-> TRUE])
    /\ UNCHANGED <<disk, today, modified>>

ModifyFile(p, bytes) ==
    /\ Changing
    /\ p \in DOMAIN fs
    /\ bytes # fs[p].bytes
    /\ fs' = [fs EXCEPT ![p].bytes = bytes]
    /\ modified' = modified \cup {p}
    /\ UNCHANGED <<disk, today>>

DeleteFile(p) ==
    /\ Changing
    /\ p \in DOMAIN fs
    /\ fs' = Without(fs, p)
    /\ modified' = modified \ {p}
    /\ UNCHANGED <<disk, today>>

\* the user fills in the license of a row by hand
EditLicense(i) ==
    /\ Changing
    /\ disk.exists
    /\ i \in 1..Len(disk.rows)
    /\ disk.rows[i].license # <<"C","C","-","B","Y">>
    /\ disk' = [disk EXCEPT !.rows[i].license = <<"C","C","-","B","Y">>]
    /\ UNCHANGED <<fs, today, modified>>

(* main() *)

\* DocumentCataloguer(...): the catalog is loaded
StartRun(inc, ren) ==
    /\ pc = "idle"
    /\ runs < MaxRuns
    /\ runs' = runs + 1
    /\ pc' = "loaded"
    /\ incremental' = inc
    /\ rename_files' = ren
    /\ existing_catalog' = load_existing_catalog(disk)
    /\ catalog_entries' = <<>>
    /\ files_to_process' = {}
    /\ deleted_files' = {}
    /\ written' = 0
    /\ scanned' = {}
    /\ resolved' = {}
    /\ skipped' = {}
    /\ produced' = <<>>
    /\ disk_at_start' = disk
    /\ today' = runs + 1
    /\ printed' = {}
    /\ failed' = {}
    /\ UNCHANGED <<fs, disk, quiet, modified, changes, resolverVars, pureVars>>

\* the files the glob patterns find
CurrentFiles == {p \in DOMAIN fs : Eligible(p)}

\* a scan that takes every file on disk for new (C7 tells it from NewFiles)
NewFilesAndCataloged == CurrentFiles

\* scan_for_file_changes: the new files, as paths
NewFiles ==
    {p \in CurrentFiles : ~InCatalog(existing_catalog, RelativePath(p))}

\* scan_for_file_changes: the deleted files, as catalog keys
DeletedFiles ==
    {existing_catalog[i].file_path : i \in 1..Len(existing_catalog)}
        \ {RelativePath(p) : p \in CurrentFiles}

\* clean_deleted_entries with its test inverted (C3 tells it from
\* clean_deleted_entries)
clean_deleted_entries_inverted(deleted) ==
    SelectSeq(existing_catalog, LAMBDA entry : entry.file_path \in deleted)

\* clean_deleted_entries
clean_deleted_entries(deleted) ==
    SelectSeq(existing_catalog, LAMBDA entry : entry.file_path \notin deleted)

\* a full scan that starts from the existing entries (C8 tells it from
\* InitialEntries)
InitialEntriesKept(inc) ==
    clean_deleted_entries(IF inc THEN DeletedFiles ELSE {})

\* catalog_all_documents: the entries the loop appends to
InitialEntries(inc) ==
    IF inc THEN clean_deleted_entries(DeletedFiles) ELSE <<>>

\* catalog_all_documents: the files the loop goes over
FilesToProcess(inc) == IF inc THEN NewFiles ELSE CurrentFiles

\* a loop that never forces (C9 tells it from force_reprocess)
force_reprocess_never(inc) == FALSE

\* catalog_all_documents: force_reprocess=not incremental
force_reprocess(inc) == ~inc

\* catalog_all_documents up to its loop
Scan ==
    /\ pc = "loaded"
    /\ scanned' = CurrentFiles
    /\ deleted_files' = IF incremental THEN DeletedFiles ELSE {}
    /\ catalog_entries' = InitialEntries(incremental)
    /\ files_to_process' = FilesToProcess(incremental)
    /\ pc' = IF incremental /\ NewFiles = {} /\ DeletedFiles = {}
             THEN "returned" ELSE "process"
    /\ UNCHANGED <<fs, disk, today, incremental, rename_files, existing_catalog,
                   written, resolved, skipped, produced, disk_at_start, quiet,
                   modified, runs, changes, printed, failed,
                   resolverVars, pureVars>>

\* a rename_file that moves the file onto an existing one
MovesOverExisting(original_path, new_path, move_fails) ==
    /\ new_path # original_path
    /\ ~move_fails

\* rename_file: whether the file moves
Moves(original_path, new_path, move_fails) ==
    /\ new_path # original_path
    /\ new_path \notin DOMAIN fs
    /\ ~move_fails

\* a loop that leaves the entry as process_document returned it
RenamedNever(entry, new_path, moved) == entry

\* the entry the loop appends: renamed when the file moved
Renamed(entry, new_path, moved) ==
    IF moved
    THEN [entry EXCEPT !.file_name = FileName(new_path),
                       !.file_path = RelativePath(new_path)]
    ELSE entry

\* a loop that an exception leaves: nothing is left to process
AfterIterationAbort(kind, files, file_path) ==
    IF kind = "raise" THEN {} ELSE files \ {file_path}

\* the files the loop has yet to take after an iteration, however the
\* iteration ended: "except Exception ... continue"
AfterIteration(kind, files, file_path) == files \ {file_path}

\* one iteration of the loop of catalog_all_documents, on file_path
ProcessNext(file_path, outcomes, move_fails) ==
    /\ pc = "process"
    /\ file_path \in files_to_process
    /\ \E result \in {process_document(file_path, fs[file_path],
                                        force_reprocess(incremental),
                                        existing_catalog, outcomes, today)} :
          /\ files_to_process' = AfterIteration(result.kind, files_to_process, file_path)
          /\ failed' = IF result.kind = "raise" THEN failed \cup {file_path} ELSE failed
          /\ skipped' = IF result.kind = "skipped"
                        THEN skipped \cup {file_path} ELSE skipped
          /\ resolved' = IF result.kind \in {"entry", "raise"}
                         THEN resolved \cup {file_path} ELSE resolved
          /\ IF result.kind \in {"skipped", "entry"}
             THEN \E new_path \in {generate_new_filename(result.entry.doc_id, file_path)} :
                  \E moved \in {rename_files /\ Moves(file_path, new_path, move_fails)} :
                  \E entry \in {Renamed(result.entry, new_path, moved)} :
                      /\ catalog_entries' = Append(catalog_entries, entry)
                      /\ produced' = Append(produced, entry)
                      /\ fs' = IF moved
                               THEN With(Without(fs, file_path), new_path, fs[file_path])
                               ELSE fs
             ELSE UNCHANGED <<catalog_entries, produced, fs>>
    /\ UNCHANGED <<disk, today, pc, incremental, rename_files, existing_catalog,
                   deleted_files, written, scanned, disk_at_start, quiet, modified,
                   runs, changes, printed, resolverVars, pureVars>>

\* the loop is over: catalog_all_documents returns
Return ==
    /\ pc = "process"
    /\ files_to_process = {}
    /\ pc' = "returned"
    /\ UNCHANGED <<fs, disk, today, incremental, rename_files, existing_catalog,
                   catalog_entries, files_to_process, deleted_files, written,
                   scanned, resolved, skipped, produced, disk_at_start, quiet,
                   modified, runs, changes, printed, failed,
                   resolverVars, pureVars>>

\* a main that saves the empty table, and whose save fails
NoSaveFails ==
    /\ pc = "returned"
    /\ catalog_entries = <<>>
    /\ pc' = "finished"
    /\ printed' = {"Error saving catalog", "Cataloging complete!"}
    /\ UNCHANGED <<fs, disk, today, incremental, rename_files, existing_catalog,
                   catalog_entries, files_to_process, deleted_files, written,
                   scanned, resolved, skipped, produced, disk_at_start, quiet,
                   modified, runs, changes, failed,
                   resolverVars, pureVars>>

\* main: "if catalog_entries:" is false, nothing is saved
NoSave ==
    /\ pc = "returned"
    /\ catalog_entries = <<>>
    /\ pc' = "finished"
    /\ printed' = {"No documents were successfully processed"}
    /\ UNCHANGED <<fs, disk, today, incremental, rename_files, existing_catalog,
                   catalog_entries, files_to_process, deleted_files, written,
                   scanned, resolved, skipped, produced, disk_at_start, quiet,
                   modified, runs, changes, failed,
                   resolverVars, pureVars>>

\* save_catalog: open(self.catalog_path, 'w') truncates the file, and
\* writeheader
SaveOpen ==
    /\ pc = "returned"
    /\ catalog_entries # <<>>
    /\ disk' = [exists |-> TRUE, rows |-> <<>>]
    /\ written' = 0
    /\ pc' = "writing"
    /\ UNCHANGED <<fs, today, incremental, rename_files, existing_catalog,
                   catalog_entries, files_to_process, deleted_files, scanned,
                   resolved, skipped, produced, disk_at_start, quiet, modified,
                   runs, changes, printed, failed,
                   resolverVars, pureVars>>

\* save_catalog: writerows, one row reaching the file after the other
SaveRow ==
    /\ pc = "writing"
    /\ written < Len(catalog_entries)
    /\ written' = written + 1
    /\ disk' = [disk EXCEPT !.rows = Append(@, WriteRow(catalog_entries[written + 1]))]
    /\ UNCHANGED <<fs, today, pc, incremental, rename_files, existing_catalog,
                   catalog_entries, files_to_process, deleted_files, scanned,
                   resolved, skipped, produced, disk_at_start, quiet, modified,
                   runs, changes, printed, failed,
                   resolverVars, pureVars>>

\* save_catalog: the file is closed, main reports
SaveClose ==
    /\ pc = "writing"
    /\ written = Len(catalog_entries)
    /\ pc' = "finished"
    /\ printed' = {"Catalog saved to", "Cataloging complete!"}
    /\ UNCHANGED <<fs, disk, today, incremental, rename_files, existing_catalog,
                   catalog_entries, files_to_process, deleted_files, written,
                   scanned, resolved, skipped, produced, disk_at_start, quiet,
                   modified, runs, changes, failed,
                   resolverVars, pureVars>>

\* save_catalog: open or a write raises (the disk is full, the file is not
\* writable); the except clause prints the error and save_catalog returns
\* to main, which reports
SaveFails ==
    /\ \/ pc = "returned" /\ catalog_entries # <<>>
       \/ pc = "writing"
    /\ pc' = "finished"
    /\ printed' = {"Error saving catalog", "Cataloging complete!"}
    /\ UNCHANGED <<fs, disk, today, incremental, rename_files, existing_catalog,
                   catalog_entries, files_to_process, deleted_files, written,
                   scanned, resolved, skipped, produced, disk_at_start, quiet,
                   modified, runs, changes, failed, resolverVars, pureVars>>

\* the values of the run's variables when no run is on
NoRun ==
    /\ incremental' = TRUE
    /\ rename_files' = FALSE
    /\ existing_catalog' = <<>>
    /\ catalog_entries' = <<>>
    /\ files_to_process' = {}
    /\ deleted_files' = {}
    /\ written' = 0
    /\ scanned' = {}
    /\ resolved' = {}
    /\ skipped' = {}
    /\ produced' = <<>>
    /\ disk_at_start' = NoDisk
    /\ printed' = {}
    /\ failed' = {}

\* the process dies (there is no handler that would finish the run), and
\* its memory with it
Crash ==
    /\ pc \in {"loaded", "process", "returned", "writing"}
    /\ pc' = "idle"
    /\ quiet' = FALSE
    /\ NoRun
    /\ UNCHANGED <<fs, disk, today, modified, runs, changes, resolverVars, pureVars>>

\* main returns: the process is gone, and its memory with it
Exit ==
    /\ pc = "finished"
    /\ pc' = "idle"
    /\ quiet' = (incremental /\ "Error saving catalog" \notin printed)
    /\ modified' = {}
    /\ NoRun
    /\ UNCHANGED <<fs, disk, today, runs, changes, resolverVars, pureVars>>

-----------------------------------------------------------------------------
(* One document in the resolver: query_ollama attempt by attempt, then the *)
(* rest of analyze_document_with_llm.                                      *)

MaxStem == 4

StemChars == {"a", "2", "0", "_"}

\* the file names of length 1..MaxStem over StemChars
Stems == UNION {[1..n -> StemChars] : n \in 1..MaxStem}

\* the files resolved: every short name, and names whose titles have 50, 51
\* and 53 characters
ResolverPaths ==
    {Path(<<<<"W","A","S","H">>>>, stem, <<".","p","d","f">>) :
        stem \in Stems \cup {<<"a","_","h","a","n","d","b","o","o","k","_","f","o","r","_","w","a","t","e","r","_","s","u","p","p","l","y","_","i","n","_","e","m","e","r","g","e","n","c","y","_","s","e","t","t","i","n","g","s","s">>, <<"a","_","h","a","n","d","b","o","o","k","_","f","o","r","_","w","a","t","e","r","_","s","u","p","p","l","y","_","i","n","_","e","m","e","r","g","e","n","c","y","_","s","e","t","t","i","n","g","s","s","2">>, <<"a","_","h","a","n","d","b","o","o","k","_","f","o","r","_","w","a","t","e","r","_","s","u","p","p","l","y","_","i","n","_","e","m","e","r","g","e","n","c","y","_","s","e","t","t","i","n","g","s","s","_","v","2">>}}

\* the values the oracle may give one field of its object: absent (no
\* value at all) is modelled by removing the field
FieldValues ==
    {JStr(<<" "," ">>), JStr(<<>>), JNum(2023), JNum(0), JNull, JList(1)}

Omit(o, field) == [f \in DOMAIN o \ {field} |-> o[f]]

\* the objects the oracle answers with: the good one, and the good one with
\* one field absent or of another value
OracleObjects ==
    {GoodObject, <<>>}
    \cup {Omit(GoodObject, RequiredFields[i]) : i \in 1..Len(RequiredFields)}
    \cup {[GoodObject EXCEPT ![RequiredFields[i]] = v] :
              i \in 1..Len(RequiredFields), v \in FieldValues}
    \cup {[GoodObject EXCEPT !.short_title = JStr(s)] :
              s \in {<<"H","a","n","d","b","o","o","k"," ","f","o","r"," ","w","a","t","e","r"," ","s","u","p","p","l","y"," ","i","n"," ","e","m","e","r","g","e","n","c","y"," ","s","e","t","t","i","n","g","s",","," ","2">>, <<"H","a","n","d","b","o","o","k"," ","f","o","r"," ","w","a","t","e","r"," ","s","u","p","p","l","y"," ","i","n"," ","e","m","e","r","g","e","n","c","y"," ","s","e","t","t","i","n","g","s",","," ","2","n">>, <<"H","a","n","d","b","o","o","k"," ","f","o","r"," ","w","a","t","e","r"," ","s","u","p","p","l","y"," ","i","n"," ","e","m","e","r","g","e","n","c","y"," ","s","e","t","t","i","n","g","s",","," ","2","n","d"," ","e","d","i","t","i","o","n">>}}

\* the response texts of the oracle
OracleTexts ==
    {<<ObjSeg(o)>> : o \in OracleObjects}
    \cup { <<>>,
           <<Seg("ws")>>,
           <<Seg("prose")>>,
           <<Seg("ws"), Seg("prose"), ObjSeg(GoodObject), Seg("prose"), Seg("ws")>>,
           <<Seg("open"), Seg("prose")>>,
           <<Seg("open"), Seg("prose"), Seg("close")>>,
           <<Seg("open"), Seg("ws"), Seg("close")>>,
           <<Seg("close"), Seg("prose"), Seg("open")>>,
           <<ObjSeg(GoodObject), Seg("prose"), ObjSeg(GoodObject)>> }

OracleOutcomes == {HttpStatus, RequestException} \cup {Ok(text) : text \in OracleTexts}

NoResult == [outcome |-> "none", metadata |-> NoMetadata]

ResolverIdle ==
    /\ r_file = Path(<<<<"W","A","S","H">>>>, <<"w","h","o">>, <<".","p","d","f">>)
    /\ r_loop = OllamaStart
    /\ r_outcomes = <<>>
    /\ r_result = NoResult
    /\ r_pc = "query"

ResolverInit ==
    /\ r_file \in ResolverPaths
    /\ r_loop = OllamaStart
    /\ r_outcomes = <<>>
    /\ r_result = NoResult
    /\ r_pc = "query"

\* requests.post answers one attempt of query_ollama
Attempt(outcome) ==
    /\ r_pc = "query"
    /\ r_loop' = OllamaAttempt(r_loop, outcome)
    /\ r_outcomes' = Append(r_outcomes, outcome.kind)
    /\ r_pc' = IF r_loop'.returned THEN "analyze" ELSE "query"
    /\ UNCHANGED <<r_file, r_result, syncVars, pureVars>>

\* analyze_document_with_llm handles what query_ollama returned
Analyze ==
    /\ r_pc = "analyze"
    /\ r_result' = AnalyzeResponse(r_loop.response, r_file)
    /\ r_pc' = "done"
    /\ UNCHANGED <<r_file, r_loop, r_outcomes, syncVars, pureVars>>

-----------------------------------------------------------------------------
(* Specifications *)

\* no call of process_document or of generate_doc_id is followed on its own
PureIdle ==
    /\ doc = <<>>
    /\ gen = <<>>
    /\ cls = <<>>

\* main() run after run, without --rename
Init == SyncInit /\ ResolverIdle /\ PureIdle

Next ==
    \/ \E p \in UserPaths, bytes \in FileBytes : AddFile(p, bytes)
    \/ \E p \in DOMAIN fs, bytes \in FileBytes : ModifyFile(p, bytes)
    \/ \E p \in DOMAIN fs : DeleteFile(p)
    \/ \E i \in 1..Len(disk.rows) : EditLicense(i)
    \/ \E inc \in BOOLEAN : StartRun(inc, FALSE)
    \/ Scan
    \/ \E p \in files_to_process, outcomes \in SyncOutcomes :
           ProcessNext(p, outcomes, FALSE)
    \/ Return
    \/ NoSave
    \/ SaveOpen
    \/ SaveRow
    \/ SaveClose
    \/ SaveFails
    \/ Crash
    \/ Exit

\* the synchroniser
Spec == Init /\ [][Next]_vars

InitResolver == fs = <<>> /\ SyncIdle /\ ResolverInit /\ PureIdle

NextResolver ==
    \/ \E outcome \in OracleOutcomes : Attempt(outcome)
    \/ Analyze

\* the resolver, on every file name and every answer of the oracle
SpecResolver == InitResolver /\ [][NextResolver]_vars

-----------------------------------------------------------------------------
(* generate_doc_id, call by call *)

\* the calls of generate_doc_id that are followed: sectors and types in and
\* out of the two tables, publishers with and without alphanumerics, year
\* fields with no, one and several runs of 4 digits
DocIdCalls ==
    [pc        : {"call"},
     sector    : {<<"W","A","S","H">>, <<"H","e","a","l","t","h">>, <<"C","h","i","l","d"," ","P","r","o","t","e","c","t","i","o","n">>, <<"S","h","e","l","t","e","r">>},
     doc_type  : {<<"s","t","a","n","d","a","r","d">>, <<"g","u","i","d","e","l","i","n","e">>, <<"r","e","p","o","r","t">>},
     publisher : {<<"S","p","h","e","r","e"," ","P","r","o","j","e","c","t","!","!">>, <<"w","h","o">>, <<>>, <<"!","!">>, <<"U",".","N","."," ","H","i","g","h","-","C","o","m","m","i","s","s","i","o","n","e","r">>,
                  <<"S","a","v","e"," ","t","h","e"," ","C","h","i","l","d","r","e","n">>},
     year      : {<<"c","i","r","c","a"," ","2","0","1","1">>, <<"2","0","1","1">>, <<>>, <<"9","9">>, <<"1","2","3","4","5">>, <<"1","9"," ","2","0","2","3","-","2","0","2","4">>,
                  <<"U","n","k","n","o","w","n">>},
     doc_id    : {<<>>}]

\* process_document calls generate_doc_id, with the version left to its
\* default
Generate ==
    /\ gen.pc = "call"
    /\ gen' = [gen EXCEPT
                  !.pc = "done",
                  !.doc_id = generate_doc_id(gen.sector, gen.doc_type, gen.publisher,
                                             <<>>, gen.year, <<"v","1">>)]
    /\ UNCHANGED <<syncVars, resolverVars, doc, cls>>

InitDocId ==
    /\ fs = <<>>
    /\ SyncIdle
    /\ ResolverIdle
    /\ doc = <<>>
    /\ cls = <<>>
    /\ gen \in DocIdCalls

\* the identifier generator, on every call of DocIdCalls
SpecDocId == InitDocId /\ [][Generate]_vars

-----------------------------------------------------------------------------
(* scan_for_file_changes, on knowledge bases with files the glob patterns   *)
(* or the name filter leave out, and on catalogs with rows of such files    *)

\* the knowledge bases scanned: any of two documents, a hidden one, a text
\* file and a document with an upper-case suffix
ScanFiles ==
    UNION {[paths -> {[bytes |-> 1, readable |-> TRUE]}] :
              paths \in SUBSET (UserPaths \cup {Path(<<<<"W","A","S","H">>>>, <<".","w","h","o">>, <<".","p","d","f">>),
                                                Path(<<<<"W","A","S","H">>>>, <<"w","h","o">>, <<".","t","x","t">>),
                                                Path(<<<<"W","A","S","H">>>>, <<"w","h","o">>, <<".","P","D","F">>)})}

\* the catalog files loaded: the rows of any of the two documents, of the
\* hidden one and of the text file, as a run that found them would have
\* written them
ScanDisks ==
    LET row(stem, ext) ==
            WriteRow(CatalogEntry(Path(<<<<"W","A","S","H">>>>, stem, ext), HexDigest(1),
                                  get_fallback_metadata(Path(<<<<"W","A","S","H">>>>, stem, ext)), 1))
        rows == <<row(<<"w","h","o">>, <<".","p","d","f">>), row(<<"2","0","2","3">>, <<".","p","d","f">>),
                  row(<<".","w","h","o">>, <<".","p","d","f">>), row(<<"w","h","o">>, <<".","t","x","t">>)>>
    IN {[exists |-> TRUE, rows |-> SelectSeq(rows, LAMBDA r : r.file_path \in keys)] :
           keys \in SUBSET {rows[i].file_path : i \in 1..4}}

InitScan ==
    /\ fs \in ScanFiles
    /\ disk \in ScanDisks
    /\ RunIdle
    /\ ResolverIdle
    /\ PureIdle

\* an incremental run up to the end of its scan
SpecScan == InitScan /\ [][StartRun(TRUE, FALSE) \/ Scan]_vars

-----------------------------------------------------------------------------
(* process_document, call by call and step by step: main's test mode calls *)
(* it without force_reprocess on files the catalog may hold, and           *)
(* catalog_all_documents calls it with force_reprocess in a full run       *)

\* the calls followed: a document with or without text, changed or not, or
\* unreadable; forced or not; a catalog file with no row, or with the row
\* of WASH/who.pdf holding a checksum, another one, or an empty cell
DocumentCalls ==
    LET who == Path(<<<<"W","A","S","H">>>>, <<"w","h","o">>, <<".","p","d","f">>)
        row(checksum) ==
            WriteRow(CatalogEntry(who, checksum, get_fallback_metadata(who), 1))
        disks == {NoDisk} \cup {[exists |-> TRUE, rows |-> <<row(checksum)>>] :
                                   checksum \in {HexDigest(1), HexDigest(2), <<>>}}
    IN {[pc               |-> "call",
         file_path        |-> file_path,
         file             |-> file,
         force_reprocess  |-> force,
         rows             |-> d.rows,
         existing_catalog |-> load_existing_catalog(d),
         outcomes         |-> outcomes,
         current_checksum |-> <<>>,
         calls            |-> <<>>,
         kind             |-> "pending",
         entry            |-> NoEntry] :
           file_path \in UserPaths,
           file \in [bytes : FileBytes, readable : {TRUE}]
                       \cup {[bytes |-> 1, readable |-> FALSE]},
           force \in BOOLEAN,
           d \in disks,
           outcomes \in SyncOutcomes}

\* process_document up to the end of its "unchanged" test
DocChecksum ==
    /\ doc.pc = "call"
    /\ doc' = [doc EXCEPT
                  !.current_checksum = get_file_checksum(doc.file),
                  !.calls = Append(@, "get_file_checksum"),
                  !.pc = IF SkipsUnchanged(doc.file_path, doc.file, doc.force_reprocess,
                                           doc.existing_catalog)
                         THEN "done" ELSE "extract",
                  !.kind = IF SkipsUnchanged(doc.file_path, doc.file, doc.force_reprocess,
                                             doc.existing_catalog)
                           THEN "skipped" ELSE @,
                  !.entry = IF SkipsUnchanged(doc.file_path, doc.file, doc.force_reprocess,
                                              doc.existing_catalog)
                            THEN CatalogGet(doc.existing_catalog, RelativePath(doc.file_path))
                            ELSE @]
    /\ UNCHANGED <<syncVars, resolverVars, gen, cls>>

\* process_document: the text is extracted, unless the suffix is not
\* supported
DocExtract ==
    /\ doc.pc = "extract"
    /\ IF StrLower(doc.file_path.ext) \notin {<<".","p","d","f">>, <<".","d","o","c","x">>}
       THEN doc' = [doc EXCEPT !.pc = "done", !.kind = "none"]
       ELSE doc' = [doc EXCEPT
                       !.calls = Append(@, "extract_text"),
                       !.pc = IF extract_text(doc.file) = <<>> THEN "done" ELSE "analyze",
                       !.kind = IF extract_text(doc.file) = <<>> THEN "none" ELSE @]
    /\ UNCHANGED <<syncVars, resolverVars, gen, cls>>

\* building the entry with the identifier generated before the document is
\* classified
EntryStepsIdFirst == <<"generate_doc_id", "determine_sector", "determine_doc_type">>

\* process_document after the resolver has returned: the calls it makes, in
\* their order, before it creates the entry
EntrySteps == <<"determine_sector", "determine_doc_type", "generate_doc_id">>

\* process_document: the resolver is called, and the entry is built from
\* what it returns
DocAnalyze ==
    /\ doc.pc = "analyze"
    /\ \E llm \in {analyze_document_with_llm(doc.outcomes, doc.file_path)} :
           doc' = [doc EXCEPT
                      !.calls = Append(@, "analyze_document_with_llm")
                                    \o (IF llm.outcome = "raise" THEN <<>> ELSE EntrySteps),
                      !.pc = "done",
                      !.kind = IF llm.outcome = "raise" THEN "raise" ELSE "entry",
                      !.entry = IF llm.outcome = "raise" THEN @
                                ELSE CatalogEntry(doc.file_path, doc.current_checksum,
                                                  llm.metadata, 1)]
    /\ UNCHANGED <<syncVars, resolverVars, gen, cls>>

\* the loop of catalog_all_documents (and of main's test mode) appends the
\* entry process_document returned
DocAppend ==
    /\ doc.pc = "done"
    /\ doc.kind \in {"skipped", "entry"}
    /\ doc' = [doc EXCEPT !.pc = "appended", !.calls = Append(@, "append")]
    /\ UNCHANGED <<syncVars, resolverVars, gen, cls>>

InitDocument ==
    /\ fs = <<>>
    /\ SyncIdle
    /\ ResolverIdle
    /\ gen = <<>>
    /\ cls = <<>>
    /\ doc \in DocumentCalls

\* one call of process_document
SpecDocument == InitDocument /\ [][DocChecksum \/ DocExtract \/ DocAnalyze \/ DocAppend]_vars

-----------------------------------------------------------------------------
(* The classifier: determine_sector and determine_doc_type, as             *)
(* process_document calls them on a path and on the title of the metadata  *)

\* the directory names of the documents classified: keys of sector_mapping,
\* names with sector keywords, with type keywords, and with none
ClassifySegments ==
    {<<"W","A","S","H">>, <<"C","h","i","l","d","_","P","r","o","t","e","c","t","i","o","n">>, <<"0","5","_","G","o","l","d","_","S","t","a","n","d","a","r","d","_","E","x","a","m","p","l","e","s">>, <<"h","e","a","l","t","h","_","d","o","c","s">>,
     <<"m","h","p","s","s","_","h","e","a","l","t","h">>, <<"F","o","o","d","-","P","r","o","t","e","c","t","i","o","n">>, <<"w","a","s","h">>, <<"G","u","i","d","e","s">>, <<"p","o","l","i","c","y","_","t","o","o","l","s">>,
     <<"d","o","c","s">>}

\* the documents classified: in the root, in a directory or in a directory
\* of a directory, under three names, with titles with and without type
\* keywords
ClassifyCalls ==
    [pc        : {"call"},
     file_path : {Path(dir, stem, <<".","p","d","f">>) :
                     dir \in {<<>>} \cup [1..1 -> ClassifySegments]
                                    \cup [1..2 -> ClassifySegments],
                     stem \in {<<"w","h","o">>, <<"g","e","n","d","e","r","_","s","t","a","n","d","a","r","d","s">>, <<"G","u","i","d","e","l","i","n","e">>}},
     title     : {<<>>, <<"F","i","e","l","d"," ","G","u","i","d","e"," ","f","o","r"," ","T","o","o","l","s">>, <<"A","s","s","e","s","s","m","e","n","t"," ","T","o","o","l">>,
                  <<"P","o","l","i","c","y"," ","E","x","a","m","p","l","e">>},
     sector    : {<<>>},
     doc_type  : {<<>>}]

\* process_document: the sector and the type are determined
Classify ==
    /\ cls.pc = "call"
    /\ cls' = [cls EXCEPT
                  !.pc = "done",
                  !.sector = determine_sector(cls.file_path),
                  !.doc_type = determine_doc_type(cls.file_path, cls.title)]
    /\ UNCHANGED <<syncVars, resolverVars, doc, gen>>

InitClassify ==
    /\ fs = <<>>
    /\ SyncIdle
    /\ ResolverIdle
    /\ doc = <<>>
    /\ gen = <<>>
    /\ cls \in ClassifyCalls

\* the classifier, on every call of ClassifyCalls
SpecClassify == InitClassify /\ [][Classify]_vars

-----------------------------------------------------------------------------
(* main() with --rename: the files are moved to the names their            *)
(* identifiers give, unless the name is taken or the move fails            *)

\* the runs rename or not; the user adds and deletes documents between the
\* runs; every save succeeds
NextRename ==
    \/ \E p \in UserPaths : AddFile(p, 1)
    \/ \E p \in DOMAIN fs : DeleteFile(p)
    \/ \E inc, ren \in BOOLEAN : StartRun(inc, ren)
    \/ Scan
    \/ \E p \in files_to_process, outcomes \in SyncOutcomes, move_fails \in BOOLEAN :
           ProcessNext(p, outcomes, move_fails)
    \/ Return
    \/ NoSave
    \/ SaveOpen
    \/ SaveRow
    \/ SaveClose
    \/ Exit

SpecRename == Init /\ [][NextRename]_vars

-----------------------------------------------------------------------------
(* Properties.  "The output table" is catalog_entries once                 *)
(* catalog_all_documents has returned; "the catalog file" is disk.         *)

\* catalog_all_documents has returned
Returned == pc \in {"returned", "writing", "finished"}

\* the scan of catalog_all_documents is done
Scanned == pc \in {"process", "returned", "writing", "finished"}

\* the paths of the loaded catalog
CatalogedPaths == {existing_catalog[i].file_path : i \in 1..Len(existing_catalog)}

\* the loaded entries whose path was not detected as deleted
Survivors ==
    SelectSeq(existing_catalog, LAMBDA entry : entry.file_path \notin deleted_files)

\* C1: an incremental run that follows a complete incremental run, with no
\* change of the knowledge base or of the catalog file between the two (and
\* that finds no document to resolve and meets no failure when it writes),
\* leaves the catalog file as the first run left it.
C1_SecondRunKeepsCatalog ==
    (pc = "finished" /\ incremental /\ quiet /\ resolved = {}
        /\ "Error saving catalog" \notin printed) =>
        disk = disk_at_start

\* C2: when an incremental run is over, every cataloged document whose bytes
\* were modified since the last run (its text can still be extracted, its
\* checksum is no longer the stored one) went through the resolver and has
\* an entry with the new checksum in the output table.
C2_ModifiedIsRegenerated ==
    (pc = "finished" /\ incremental) =>
        \A p \in modified :
            (/\ p \in DOMAIN fs
             /\ extract_text(fs[p]) # <<>>
             /\ InCatalog(existing_catalog, RelativePath(p))
             /\ CatalogGet(existing_catalog, RelativePath(p)).checksum_sha256
                    # get_file_checksum(fs[p]))
            => /\ p \in resolved
               /\ \E j \in 1..Len(catalog_entries) :
                      /\ catalog_entries[j].file_path = RelativePath(p)
                      /\ catalog_entries[j].checksum_sha256 = get_file_checksum(fs[p])

\* C3: in an incremental run the paths detected as deleted are exactly the
\* cataloged paths with no eligible file on disk, and the table the run
\* builds begins with the loaded entries of all other paths, each one as
\* loaded and in the loaded order: the entries of the deleted paths are
\* removed, and no other entry is.
C3_DeletionRemovesExactly ==
    (incremental /\ Scanned) =>
        /\ deleted_files = CatalogedPaths \ {RelativePath(p) : p \in scanned}
        /\ Len(catalog_entries) >= Len(produced)
        /\ SubSeq(catalog_entries, 1, Len(catalog_entries) - Len(produced)) = Survivors

\* an incremental run ended that removed the entry of one of two cataloged
\* documents
C3_Witness ==
    /\ pc = "finished"
    /\ incremental
    /\ Len(existing_catalog) = 2
    /\ Cardinality(deleted_files) = 1
    /\ Len(catalog_entries) = 1
    /\ disk.rows = RowsOf(Survivors)

\* the nine descriptive fields, as columns of an entry (the summary is the
\* column notes)
DescriptiveColumns ==
    {"title", "short_title", "publisher", "year", "language", "country_scope",
     "notes", "indicators_covered", "evidence_level"}

\* C4: the entry process_document builds from the metadata the resolver
\* returned, on the LLM path and on the fallback path, has its nine
\* descriptive fields non-empty.
C4_DescriptiveFieldsNonEmpty ==
    (r_pc = "done" /\ r_result.outcome \in {"llm", "fallback"}) =>
        \A column \in DescriptiveColumns :
            CatalogEntry(r_file, HexDigest(1), r_result.metadata, 1)[column] # <<>>

\* C5: analyze_document_with_llm returns metadata, of the oracle or of the
\* fallback, and no exception leaves it.
C5_NeverRaises ==
    r_pc = "done" => r_result.outcome \in {"llm", "fallback"}

\* C6: the oracle is attempted at most 3 times for a document; no attempt
\* follows a success response; query_ollama returns only on a success
\* response or after 3 failed attempts, and then it returns none and the
\* resolver returns the fallback metadata; the analysis of the response,
\* malformed or not, is followed by no attempt.
C6_AtMostThreeAttempts ==
    /\ Len(r_outcomes) <= 3
    /\ \A i \in 1..(Len(r_outcomes) - 1) : r_outcomes[i] # "ok"
    /\ r_pc = "query" =>
           /\ Len(r_outcomes) < 3
           /\ \A i \in 1..Len(r_outcomes) : r_outcomes[i] # "ok"
    /\ r_pc \in {"analyze", "done"} =>
           /\ r_outcomes # <<>>
           /\ r_outcomes[Len(r_outcomes)] = "ok" \/ Len(r_outcomes) = 3
           /\ r_loop.attempt = Len(r_outcomes)
           /\ r_outcomes[Len(r_outcomes)] # "ok" => r_loop.response = None
    /\ (r_pc = "done" /\ r_outcomes[Len(r_outcomes)] # "ok") =>
           /\ r_result.outcome = "fallback"
           /\ r_result.metadata = get_fallback_metadata(r_file)

\* three attempts failed, and the resolver returned the fallback metadata
C6_Witness ==
    /\ r_pc = "done"
    /\ Len(r_outcomes) = 3
    /\ \A i \in 1..3 : r_outcomes[i] \in {"status", "exception"}
    /\ r_result.outcome = "fallback"

C9_FullModeForces ==
    (~incremental /\ Returned) =>
        /\ skipped = {}
        /\ catalog_entries = produced
        /\ \A p \in scanned :
               (p \in DOMAIN fs /\ extract_text(fs[p]) # <<>>) => p \in resolved

\* a full run ended that resolved a document the catalog held with the
\* checksum the document has
C9_Witness ==
    /\ pc = "finished"
    /\ ~incremental
    /\ \E p \in resolved :
           /\ p \in DOMAIN fs
           /\ InCatalog(existing_catalog, RelativePath(p))
           /\ CatalogGet(existing_catalog, RelativePath(p)).checksum_sha256
                  = get_file_checksum(fs[p])

\* C10: wherever the run may die, the catalog file is the file the run
\* found or the complete output table.
C10_AtomicWrite ==
    pc \in {"loaded", "process", "returned", "writing"} =>
        \/ disk = disk_at_start
        \/ disk = [exists |-> TRUE, rows |-> RowsOf(catalog_entries)]

\* the files the loop of catalog_all_documents is given
ToProcess ==
    IF incremental
    THEN {p \in scanned : RelativePath(p) \notin CatalogedPaths}
    ELSE scanned

\* the run produced an entry for the file at p
Produced(p) ==
    \E k \in 1..Len(produced) : produced[k].file_path = RelativePath(p)

C12_WriteFailureIsNotSuccess ==
    (pc = "finished" /\ catalog_entries # <<>> /\ "Catalog saved to" \notin printed) =>
        /\ "Error saving catalog" \in printed
        /\ "Cataloging complete!" \notin printed

\* the positions of the alphanumeric characters of s
AlnumPositions(s) == {i \in 1..Len(s) : IsAlnum(s[i])}

\* the position of the k-th alphanumeric character of s
KthAlnum(s, k) ==
    CHOOSE i \in AlnumPositions(s) :
        Cardinality({j \in AlnumPositions(s) : j <= i}) = k

\* the publisher part of an identifier: the first 8 alphanumeric characters
\* of the publisher, upper-cased, or UNK
PublisherPart(publisher) ==
    LET n == IF Cardinality(AlnumPositions(publisher)) < 8
             THEN Cardinality(AlnumPositions(publisher)) ELSE 8
    IN IF n = 0 THEN <<"U","N","K">>
       ELSE SubSeq([k \in 1..n |-> UpperChar(publisher[KthAlnum(publisher, k)])], 1, n)

\* the year part of an identifier: the 4 digits at the first position of the
\* year field where 4 digits follow one another, or UNKN
YearPart(year) ==
    LET starts == {i \in 1..(Len(year) - 3) : \A k \in 0..3 : year[i + k] \in Digits}
    IN IF starts = {} THEN <<"U","N","K","N">>
       ELSE LET first == CHOOSE i \in starts : \A j \in starts : i <= j
            IN <<year[first], year[first + 1], year[first + 2], year[first + 3]>>

\* the abbreviations of the sectors and types of DocIdCalls
SectorPart(sector) ==
    CASE sector = <<"W","A","S","H">> -> <<"W","A","S","H">>
      [] sector = <<"H","e","a","l","t","h">> -> <<"H","L","T","H">>
      [] sector = <<"C","h","i","l","d"," ","P","r","o","t","e","c","t","i","o","n">> -> <<"C","P">>
      [] OTHER -> <<"G","E","N">>

TypePart(doc_type) ==
    CASE doc_type = <<"s","t","a","n","d","a","r","d">> -> <<"S","T","D">>
      [] doc_type = <<"g","u","i","d","e","l","i","n","e">> -> <<"G","U","I","D">>
      [] OTHER -> <<"D","O","C">>

\* C13: the identifier generate_doc_id returns is SECTOR_TYPE_PUBLISHER_YEAR_v1
\* with the abbreviation of the sector (GEN when it has none), that of the
\* type (DOC when it has none), the first 8 alphanumeric characters of the
\* publisher upper-cased (UNK when it has none) and the first 4 digits in a
\* row of the year field (UNKN when it has none); for WASH, standard,
\* 'Sphere Project!!' and 'circa 2011' it is WASH_STD_SPHEREPR_2011_v1.
C13_DocIdFormat ==
    gen.pc = "done" =>
        /\ gen.doc_id = SectorPart(gen.sector) \o <<"_">> \o TypePart(gen.doc_type)
                        \o <<"_">> \o PublisherPart(gen.publisher)
                        \o <<"_">> \o YearPart(gen.year) \o <<"_","v","1">>
        /\ (/\ gen.sector = <<"W","A","S","H">>
            /\ gen.doc_type = <<"s","t","a","n","d","a","r","d">>
            /\ gen.publisher = <<"S","p","h","e","r","e"," ","P","r","o","j","e","c","t","!","!">>
            /\ gen.year = <<"c","i","r","c","a"," ","2","0","1","1">>)
           => gen.doc_id = <<"W","A","S","H","_","S","T","D","_","S","P","H","E","R","E","P","R","_","2","0","1","1","_","v","1">>

\* the identifier of the example was generated
C13_Witness ==
    /\ gen.pc = "done"
    /\ gen.publisher = <<"S","p","h","e","r","e"," ","P","r","o","j","e","c","t","!","!">>
    /\ gen.year = <<"c","i","r","c","a"," ","2","0","1","1">>
    /\ gen.doc_id = <<"W","A","S","H","_","S","T","D","_","S","P","H","E","R","E","P","R","_","2","0","1","1","_","v","1">>

\* C14: an incremental run that finds no catalog file and a knowledge base
\* with no document calls the resolver for no file, meets no exception,
\* builds a table with no entry, reports no error, and leaves a catalog
\* with no row: the next run loads the empty catalog.
C14_EmptyKnowledgeBase ==
    (pc # "idle" /\ incremental /\ fs = <<>> /\ disk_at_start = NoDisk) =>
        /\ resolved = {}
        /\ failed = {}
        /\ catalog_entries = <<>>
        /\ disk.rows = <<>>
        /\ load_existing_catalog(disk) = <<>>
        /\ "Error saving catalog" \notin printed
        /\ pc = "finished" => printed = {"No documents were successfully processed"}

\* an incremental run on the empty knowledge base, with no catalog file,
\* is over
C14_Witness ==
    /\ pc = "finished"
    /\ incremental
    /\ fs = <<>>
    /\ scanned = {}
    /\ disk_at_start = NoDisk
    /\ catalog_entries = <<>>

\* the relative paths of the documents on disk with the extension .pdf or
\* .docx and a name that does not start with a dot
EligibleOnDisk ==
    {RelativePath(p) : p \in {q \in DOMAIN fs :
                                 /\ q.ext = <<".","p","d","f">> \/ q.ext = <<".","d","o","c","x">>
                                 /\ (q.stem \o q.ext)[1] # "."}}

\* C16: when scan_for_file_changes has returned, the new paths are exactly
\* the eligible paths on disk that the loaded catalog does not hold, the
\* deleted paths are exactly the paths of the loaded catalog that are not
\* eligible paths on disk, no path is new and deleted, and a path that is
\* on disk and in the catalog is neither.
C16_ScanIsSetDifference ==
    (incremental /\ pc \in {"process", "returned"}) =>
        LET new_files == {RelativePath(p) : p \in files_to_process}
        IN /\ new_files = EligibleOnDisk \ CatalogedPaths
           /\ deleted_files = CatalogedPaths \ EligibleOnDisk
           /\ new_files \cap deleted_files = {}
           /\ \A f \in EligibleOnDisk \cap CatalogedPaths :
                  f \notin new_files /\ f \notin deleted_files

\* a scan returned a new path and a deleted path, on a knowledge base with
\* a cataloged document and a hidden file
C16_Witness ==
    /\ incremental
    /\ pc = "process"
    /\ files_to_process # {}
    /\ deleted_files # {}
    /\ EligibleOnDisk \cap CatalogedPaths # {}
    /\ \E p \in DOMAIN fs : p.stem = <<".","w","h","o">>

\* the entry the catalog of the call holds for the document of the call
PriorEntry == CatalogGet(doc.existing_catalog, RelativePath(doc.file_path))

\* C17: process_document returns as SKIPPED exactly when reprocessing is not
\* forced, the catalog holds the document's path, and the checksum stored
\* there is the one just computed; it then returns the entry of the
\* catalog, every field as loaded, and has extracted no text and called no
\* resolver: computing the checksum is all it did.  In every other case the
\* text extraction was attempted and what is returned is None, a newly
\* built entry or an exception, and no field of a newly built entry is
\* taken from the catalog.
C17_SkippedExactlyWhenUnchanged ==
    doc.pc = "done" =>
        LET unchanged ==
                /\ ~doc.force_reprocess
                /\ \E i \in 1..Len(doc.existing_catalog) :
                       /\ doc.existing_catalog[i].file_path = RelativePath(doc.file_path)
                       /\ doc.existing_catalog[i].checksum_sha256 = doc.current_checksum
        IN /\ doc.kind = "skipped" <=> unchanged
           /\ doc.kind = "skipped" =>
                  /\ doc.entry = PriorEntry
                  /\ doc.calls = <<"get_file_checksum">>
           /\ doc.kind # "skipped" =>
                  /\ doc.kind \in {"none", "entry", "raise"}
                  /\ doc.calls[2] = "extract_text"
                  /\ doc.kind = "entry" =>
                         doc.entry = CatalogEntry(doc.file_path, doc.current_checksum,
                                                  analyze_document_with_llm(
                                                      doc.outcomes, doc.file_path).metadata,
                                                  1)

\* an unforced call returned the entry the catalog held for an unchanged
\* document, with the license a loaded row has
C17_Witness ==
    /\ doc.pc = "done"
    /\ doc.kind = "skipped"
    /\ ~doc.force_reprocess
    /\ doc.entry.checksum_sha256 = get_file_checksum(doc.file)
    /\ doc.entry.license = NaN

\* C18: the checksum of a document that cannot be read is the empty string,
\* and a call for such a document never returns as SKIPPED, whatever the
\* catalog holds for its path: a checksum, or the value loaded from an
\* empty checksum cell.
C18_EmptyChecksumNeverMatches ==
    (doc.pc # "call" /\ ~doc.file.readable) =>
        /\ doc.current_checksum = <<>>
        /\ doc.kind # "skipped"

\* an unforced call for an unreadable document whose row has an empty
\* checksum cell went on to the text extraction
C18_Witness ==
    /\ doc.pc = "done"
    /\ ~doc.file.readable
    /\ ~doc.force_reprocess
    /\ doc.rows # <<>>
    /\ doc.rows[1].file_path = RelativePath(doc.file_path)
    /\ doc.rows[1].checksum_sha256 = <<>>
    /\ doc.calls = <<"get_file_checksum", "extract_text">>
    /\ doc.kind = "none"

\* the text query_ollama returned
ResponseText == r_loop.response.text

\* the positions of the opening and of the closing braces of the response
OpenBraces == {i \in 1..Len(ResponseText) : ResponseText[i].k \in {"open", "obj"}}

CloseBraces == {i \in 1..Len(ResponseText) : ResponseText[i].k \in {"close", "obj"}}

FirstOpen == CHOOSE i \in OpenBraces : \A j \in OpenBraces : i <= j

LastClose == CHOOSE i \in CloseBraces : \A j \in CloseBraces : j <= i

\* a JSON object can be parsed from the substring between the first '{' and
\* the last '}' of the response: the substring is the text of one object,
\* or a pair of braces around white space
Parses ==
    /\ OpenBraces # {}
    /\ CloseBraces # {}
    /\ \/ FirstOpen = LastClose /\ ResponseText[FirstOpen].k = "obj"
       \/ /\ FirstOpen < LastClose
          /\ ResponseText[FirstOpen].k = "open"
          /\ ResponseText[LastClose].k = "close"
          /\ \A i \in (FirstOpen + 1)..(LastClose - 1) : ResponseText[i].k = "ws"

\* the object parsed
ParsedObject ==
    IF ResponseText[FirstOpen].k = "obj" THEN ResponseText[FirstOpen].o ELSE <<>>

\* the resolver is done with a response of the oracle
Answered == r_pc = "done" /\ ~r_loop.response.none

\* the value of a field is blank: null, zero, the empty string or white
\* space
Blank(v) ==
    \/ v.t = "null"
    \/ v.t = "num" /\ v.n = 0
    \/ v.t = "str" /\ \A i \in 1..Len(v.s) : v.s[i] \in {" ", "\t", "\n"}

\* the fields of the parsed object that are missing or blank
MissingOrBlank ==
    {RequiredFields[i] : i \in 1..Len(RequiredFields)}
        \ {f \in DOMAIN ParsedObject : ~Blank(ParsedObject[f])}

\* C19 as stated: a response from which no object can be parsed, and a
\* response whose object lacks a required field or has it blank (all its
\* other fields being strings), makes the resolver return the fallback
\* metadata.
C19_MalformedOrIncompleteFallsBack ==
    (/\ Answered
     /\ \/ ~Parses
        \/ /\ MissingOrBlank # {}
           /\ \A f \in DOMAIN ParsedObject : ParsedObject[f].t \in {"str", "null"})
    => /\ r_result.outcome = "fallback"
       /\ r_result.metadata = get_fallback_metadata(r_file)

\* C19 amended: a response from which no object can be parsed makes the
\* resolver return the fallback metadata of the file.
C19_UnparsableFallsBack ==
    (Answered /\ ~Parses) =>
        /\ r_result.outcome = "fallback"
        /\ r_result.metadata = get_fallback_metadata(r_file)

\* the resolver returned the fallback metadata for a response with a pair
\* of braces around prose
C19_Witness ==
    /\ Answered
    /\ ResponseText = <<Seg("open"), Seg("prose"), Seg("close")>>
    /\ r_result.outcome = "fallback"

\* the default of a field
DefaultOf(field) ==
    CASE field = "evidence_level" -> <<"n","o","r","m","a","t","i","v","e">>
      [] field = "country_scope" -> <<"G","l","o","b","a","l">>
      [] field = "summary" -> <<"H","u","m","a","n","i","t","a","r","i","a","n"," ","s","t","a","n","d","a","r","d"," ","o","r"," ","f","r","a","m","e","w","o","r","k"," ","d","o","c","u","m","e","n","t">>
      [] field = "indicators_covered" -> <<"Q","u","a","l","i","t","y"," ","a","n","d"," ","a","c","c","o","u","n","t","a","b","i","l","i","t","y"," ","s","t","a","n","d","a","r","d","s">>
      [] OTHER -> <<"U","n","k","n","o","w","n">>

\* a supplied value as a string: a str as it is, or cut to 47 characters
\* and three dots when it is longer than 50, the number 2023 as "2023"
Supplied(v) ==
    CASE v.t = "str" /\ Len(v.s) <= 50 -> v.s
      [] v.t = "str" /\ Len(v.s) > 50 -> SubSeq(v.s, 1, 47) \o <<".",".",".">>
      [] v.t = "num" /\ v.n = 2023 -> <<"2","0","2","3">>
      [] OTHER -> <<>>

\* C20: when an object was parsed from the response, the resolver returns
\* the oracle's metadata, in which every required field that is missing or
\* blank in the object has its default and every other field is as the
\* oracle supplied it, the year as a string when it is a number and the
\* short title cut when it is longer than 50 characters (the other values
\* of the object are strings or null).
C20_DefaultsFilledSuppliedKept ==
    (/\ Answered
     /\ Parses
     /\ \A f \in DOMAIN ParsedObject :
            \/ ParsedObject[f].t \in {"str", "null"}
            \/ f = "year" /\ ParsedObject[f].t = "num") =>
        /\ r_result.outcome = "llm"
        /\ \A i \in 1..Len(RequiredFields) :
               r_result.metadata[RequiredFields[i]] =
                   IF RequiredFields[i] \in MissingOrBlank
                   THEN DefaultOf(RequiredFields[i])
                   ELSE Supplied(ParsedObject[RequiredFields[i]])

\* no entry of the table has a path detected as deleted
NoStaleEntry(entries) ==
    \A j \in 1..Len(entries) : entries[j].file_path \notin deleted_files

\* C21: in an incremental run, whenever the loop takes a document the
\* deleted paths have been detected and the table holds no entry of a
\* deleted path, before the step and after it; and the table
\* catalog_all_documents returns holds no entry of a deleted path.
C21_RemovalBeforeMerge ==
    /\ []((incremental /\ Scanned) => NoStaleEntry(catalog_entries))
    /\ [][(/\ incremental
            /\ pc = "process"
            /\ pc' = "process"
            /\ files_to_process' # files_to_process) =>
             /\ deleted_files = CatalogedPaths \ {RelativePath(p) : p \in scanned}
             /\ deleted_files' = deleted_files
             /\ NoStaleEntry(catalog_entries)
             /\ Len(catalog_entries) = Len(Survivors) + Len(produced)
             /\ NoStaleEntry(catalog_entries')]_vars

\* an incremental run ended that dropped the entry of a deleted document
\* and produced the entry of a new one
C21_Witness ==
    /\ pc = "finished"
    /\ incremental
    /\ deleted_files # {}
    /\ Len(existing_catalog) > Len(Survivors)
    /\ produced # <<>>
    /\ catalog_entries = Survivors \o produced

\* the steps of a document, in the order of its states: CHECKSUMMED,
\* RESOLVED (text extraction, then the resolver), CLASSIFIED, IDENTIFIED,
\* MERGED
StateOrder ==
    <<"get_file_checksum", "extract_text", "analyze_document_with_llm",
      "determine_sector", "determine_doc_type", "generate_doc_id", "append">>

\* the place of a step in the order
Rank(step) == CHOOSE i \in 1..Len(StateOrder) : StateOrder[i] = step

Segments == PathParts(cls.file_path)

\* the label the sector table has for a segment, <<>> when the segment is
\* none of its keys (of those the segments of ClassifySegments can equal)
TableLabel(segment) ==
    CASE segment = <<"W","A","S","H">> -> <<"W","A","S","H">>
      [] segment = <<"C","h","i","l","d","_","P","r","o","t","e","c","t","i","o","n">> -> <<"C","h","i","l","d"," ","P","r","o","t","e","c","t","i","o","n">>
      [] segment = <<"0","5","_","G","o","l","d","_","S","t","a","n","d","a","r","d","_","E","x","a","m","p","l","e","s">> -> <<"M","i","x","e","d">>
      [] OTHER -> <<>>

\* the sector keywords, each with the sector it stands for
SectorKeywords ==
    {<<<<"h","e","a","l","t","h">>, <<"H","e","a","l","t","h">>>>, <<<<"m","h","p","s","s">>, <<"M","H","P","S","S">>>>, <<<<"m","e","n","t","a","l">>, <<"M","H","P","S","S">>>>,
     <<<<"n","u","t","r","i","t","i","o","n">>, <<"N","u","t","r","i","t","i","o","n">>>>, <<<<"w","a","s","h">>, <<"W","A","S","H">>>>, <<<<"g","b","v">>, <<"G","B","V">>>>,
     <<<<"g","e","n","d","e","r">>, <<"G","B","V">>>>, <<<<"p","r","o","t","e","c","t","i","o","n">>, <<"C","h","i","l","d"," ","P","r","o","t","e","c","t","i","o","n">>>>,
     <<<<"f","s","l">>, <<"F","S","L">>>>, <<<<"f","o","o","d">>, <<"F","S","L">>>>}

\* the sectors whose keywords a segment contains, whatever the case
SectorsIn(segment) ==
    {kw[2] : kw \in {k \in SectorKeywords : Contains(StrLower(segment), k[1])}}

\* C23: when a segment of the path is a key of the sector table, the sector
\* is the label of the first such segment, whatever keywords the segments
\* before it contain; when none is, and a segment contains a sector
\* keyword, the sector is one whose keyword the first such segment
\* contains; when no segment is a key or contains a keyword, the sector is
\* Cross-Cutting.
C23_ExactMatchFirst ==
    cls.pc = "done" =>
        LET exact == {i \in 1..Len(Segments) : TableLabel(Segments[i]) # <<>>}
            keyword == {i \in 1..Len(Segments) : SectorsIn(Segments[i]) # {}}
        IN IF exact # {}
           THEN cls.sector = TableLabel(Segments[CHOOSE i \in exact : \A j \in exact : i <= j])
           ELSE IF keyword # {}
           THEN cls.sector \in
                    SectorsIn(Segments[CHOOSE i \in keyword : \A j \in keyword : i <= j])
           ELSE cls.sector = <<"C","r","o","s","s","-","C","u","t","t","i","n","g">>

\* a document was classified WASH by its second directory, though its first
\* directory contains the keyword health
C23_Witness ==
    /\ cls.pc = "done"
    /\ cls.file_path.dir = <<<<"h","e","a","l","t","h","_","d","o","c","s">>, <<"W","A","S","H">>>>
    /\ cls.sector = <<"W","A","S","H">>

\* the type keywords in their priority order, each with its type
TypeKeywords ==
    << <<<<"s","t","a","n","d","a","r","d">>, <<"s","t","a","n","d","a","r","d">>>>, <<<<"a","s","s","e","s","s","m","e","n","t">>, <<"a","s","s","e","s","s","m","e","n","t","_","t","o","o","l">>>>,
       <<<<"g","u","i","d","e","l","i","n","e">>, <<"g","u","i","d","e","l","i","n","e">>>>, <<<<"t","o","o","l">>, <<"t","o","o","l">>>>,
       <<<<"p","o","l","i","c","y">>, <<"p","o","l","i","c","y">>>>, <<<<"e","x","a","m","p","l","e">>, <<"e","x","a","m","p","l","e">>>> >>

\* the lowercased path and the lowercased title of the document classified
LowerPath == StrLower(PathStr(cls.file_path))

LowerTitle == StrLower(cls.title)

\* the type of the first of the keywords of TypeKeywords that occur, given
\* by their places; resource when none occurs
FirstType(occurring) ==
    IF occurring = {} THEN <<"r","e","s","o","u","r","c","e">>
    ELSE TypeKeywords[CHOOSE i \in occurring : \A j \in occurring : i <= j][2]

\* C24 as stated: the type is the type of the first keyword, in the order
\* standard, assessment, guideline, tool, policy, example, that occurs in
\* the lowercased path or in the lowercased title, and resource when none
\* occurs.
C24_FirstKeywordInPathOrTitle ==
    cls.pc = "done" =>
        cls.doc_type =
            FirstType({i \in 1..6 : \/ Contains(LowerPath, TypeKeywords[i][1])
                                     \/ Contains(LowerTitle, TypeKeywords[i][1])})

\* C24 amended: the same, the keyword of the type guideline being guideline
\* in the path and guide in the title.
C24_FirstKeywordGuideInTitle ==
    cls.pc = "done" =>
        cls.doc_type =
            FirstType({i \in 1..6 : \/ Contains(LowerPath, TypeKeywords[i][1])
                                     \/ Contains(LowerTitle, IF i = 3 THEN <<"g","u","i","d","e">>
                                                             ELSE TypeKeywords[i][1])})

\* a document with no keyword in its path and the title 'Field Guide for
\* Tools' was classified guideline
C24_Witness ==
    /\ cls.pc = "done"
    /\ cls.file_path = Path(<<<<"d","o","c","s">>>>, <<"w","h","o">>, <<".","p","d","f">>)
    /\ cls.title = <<"F","i","e","l","d"," ","G","u","i","d","e"," ","f","o","r"," ","T","o","o","l","s">>
    /\ cls.doc_type = <<"g","u","i","d","e","l","i","n","e">>

\* the short title before it is cut: on the LLM path the one the oracle
\* supplied, or the default; on the fallback path the title made of the
\* file name
UncutShortTitle ==
    IF r_result.outcome = "fallback" THEN r_result.metadata.title
    ELSE IF "short_title" \in MissingOrBlank THEN <<"U","n","k","n","o","w","n">>
    ELSE ParsedObject.short_title.s

\* C25: the short title of the metadata the resolver returns, of the oracle
\* or of the fallback, has at most 50 characters: one of at most 50
\* characters is kept as it is, a longer one is its first 47 characters
\* followed by three dots.
C25_ShortTitleAtMost50 ==
    (r_pc = "done" /\ r_result.outcome \in {"llm", "fallback"}) =>
        /\ Len(r_result.metadata.short_title) <= 50
        /\ IF Len(UncutShortTitle) <= 50
           THEN r_result.metadata.short_title = UncutShortTitle
           ELSE /\ Len(r_result.metadata.short_title) = 50
                /\ \A i \in 1..47 : r_result.metadata.short_title[i] = UncutShortTitle[i]
                /\ \A i \in 48..50 : r_result.metadata.short_title[i] = "."

\* the resolver returned the oracle's metadata with a short title of 51
\* characters cut to 50
C25_Witness ==
    /\ r_pc = "done"
    /\ r_result.outcome = "llm"
    /\ "short_title" \in DOMAIN ParsedObject
    /\ Len(ParsedObject.short_title.s) = 51
    /\ Len(r_result.metadata.short_title) = 50
    /\ r_result.metadata.short_title[50] = "."

\* C26: the table catalog_all_documents returns, in either mode, with and
\* without renaming, run after run, has no two entries with the same
\* file_path.
C26_OneEntryPerPath ==
    Returned =>
        \A i, j \in 1..Len(catalog_entries) :
            catalog_entries[i].file_path = catalog_entries[j].file_path => i = j

\* a renaming run ended with two entries: one of a file it moved, one of a
\* file it left at its path because the name was taken
C26_Witness ==
    /\ pc = "finished"
    /\ rename_files
    /\ Len(catalog_entries) = 2
    /\ catalog_entries[1].doc_id = catalog_entries[2].doc_id
    /\ \E i \in 1..2 : catalog_entries[i].file_name = catalog_entries[i].doc_id \o <<".","p","d","f">>
    /\ \E i \in 1..2 : catalog_entries[i].file_name = <<"2","0","2","3",".","p","d","f">>
                          \/ catalog_entries[i].file_name = <<"w","h","o",".","p","d","f">>

\* the paths of the entries of the table
OutputPaths == {catalog_entries[j].file_path : j \in 1..Len(catalog_entries)}

\* C27: when catalog_all_documents has returned, every entry of its table
\* has the path of an eligible document on disk, renamed or not; and when
\* every document given to the loop got its entry, the paths of the table
\* are exactly the paths of the eligible documents on disk.
C27_EntriesNameFilesOnDisk ==
    Returned =>
        /\ OutputPaths \subseteq EligibleOnDisk
        /\ Len(produced) = Cardinality(ToProcess) => OutputPaths = EligibleOnDisk

\* a renaming run ended in which every document got its entry: one file
\* moved and its entry has the new path, the other stayed and its entry
\* has the path it had
C27_Witness ==
    /\ pc = "finished"
    /\ rename_files
    /\ Len(produced) = 2
    /\ Cardinality(ToProcess) = 2
    /\ \E p \in scanned : p \notin DOMAIN fs
    /\ \E p \in scanned : p \in DOMAIN fs /\ RelativePath(p) \in OutputPaths
    /\ OutputPaths = EligibleOnDisk

C29_FileHoldsComputedEntries ==
    (pc = "finished" /\ "Error saving catalog" \notin printed) =>
        disk.rows = RowsOf(catalog_entries)

=============================================================================
